---- MODULE Spec2Model ----
(***************************************************************************)
(* Vital-sign extraction pipeline of main.cpp: the OCR word loop, the      *)
(* nearest-number association and the ABP gate with the SpO2 fallback.     *)
(*                                                                         *)
(* A word is the sequence of its characters, <<"H","R">> for "HR", so the  *)
(* regular expressions of main.cpp are computed character by character.    *)
(* The empty string is << >>.                                              *)
(***************************************************************************)
EXTENDS Integers, Sequences, FiniteSets, TLC

VARIABLES
    pc,               \* position of main's loop: "idle" (before the call of
                      \* processFrame) or "returned" (healthData in hand)
    last_spo2_value,  \* the global of main.cpp:44
    frame,            \* the words the OCR iterator yields for the frame
    detectedLabels,   \* processFrame's local map, as it is at the return
    detectedNumbers,  \* processFrame's local vector, as it is at the return
    associated,       \* extractedValues after the loop of lines 119-121
    extractedValues,  \* the map processFrame returns
    prev_spo2         \* last_spo2_value when processFrame was entered

vars == <<pc, last_spo2_value, frame, detectedLabels, detectedNumbers,
          associated, extractedValues, prev_spo2>>

\* main and what it drives: the position of main, the build and the
\* configuration values main reads, the logger, the signal handler, the
\* video source, the three sinks, and what an observer of the run records
VARIABLES
    main_pc,          \* where main is (the statement it executes next)
    relock_blocks,    \* the build: does std::mutex::lock block its own owner
    currentLevel_,    \* Logger::currentLevel_
    initialized_,     \* Logger::initialized_
    logger_mutex,     \* Logger::mutex_: "free" or held by "main"
    g_shutdown,       \* the flag of line 27
    handler,          \* signalHandler: "none", "done" or "blocked"
    dbEnabled,        \* the local of line 241
    conn_,            \* DatabaseManager::conn_: "null", "ok" or "bad"
    csvFile,          \* the ofstream of line 274: "closed" or "open"
    consoleOutput,    \* output.console_output
    debugMode,        \* app.debug_mode
    mlEnabled,        \* ml_model.enabled
    cap,              \* the VideoCapture: "closed" or "open"
    frame_count,      \* the counter of line 286
    sampled,          \* is the frame in hand a sampled one
    ecg,              \* ecgClassification and ecgConfidence
    console,          \* the lines written to cout, by frame_count
    csvRows,          \* the rows written to the CSV file
    dbRows,           \* the rows of vital_signs, by frame_count
    cam,              \* the run of initializeCamera just made, if any
    db_trace,         \* the database calls made for the record in hand
    db_loss,          \* the records sampled since the connection was lost
    last_empty,       \* was the last frame pulled empty
    stop_cause,       \* why the loop was left
    flushed,          \* has Logger::flush run
    pulled,           \* how many non-empty frames cap >> frame has delivered
    csv_failed,       \* the CSV file was to be opened and could not be
    exit_code,        \* the exit status of the process: {} while it runs
    inference,        \* what run_classifier returned for the frame in hand
    db_mutex,         \* DatabaseManager::mutex_: "free" or held by "main"
    ocr               \* the TessBaseAPI of line 40: "idle", "ready" (Init
                      \* returned 0), "failed" or "ended"

mvars ==
    <<main_pc, relock_blocks, currentLevel_, initialized_, logger_mutex,
      g_shutdown, handler, dbEnabled, conn_, csvFile, consoleOutput,
      debugMode, mlEnabled, cap, frame_count, sampled, ecg, console, csvRows,
      dbRows, cam, db_trace, db_loss, last_empty, stop_cause, flushed,
      pulled, csv_failed, exit_code, inference, db_mutex, ocr>>

\* the configuration store and the file it is loaded from
VARIABLES
    cfg_pc,           \* main's position in lines 200-230: "start",
                      \* "loaded" or "not_loaded", then "started"
    file_opens,       \* can the configuration file be opened
    content,          \* the members of the file, in file order
    config_,          \* ConfigManager::config_
    loaded_,          \* ConfigManager::loaded_
    startup           \* the values main has read through the getters

cvars == <<cfg_pc, file_opens, content, config_, loaded_, startup>>

\* the log directory and the fields of the Logger that rotation reads
VARIABLES
    maxFiles_,        \* Logger::maxFiles_
    maxFileLines_,    \* Logger::maxFileSizeBytes_, in lines of the log
    fileEnabled_,     \* Logger::fileEnabled_
    files,            \* the directory: files[0] is the active file,
                      \* files[i] the backup ".i"
    rotations         \* how often rotateLogFile has run

lvars == <<maxFiles_, maxFileLines_, fileEnabled_, files, rotations>>

allvars == <<vars, mvars, cvars, lvars>>

----------------------------------------------------------------------------
(* Words *)

HR == <<"H", "R">>
SpO2 == <<"S", "p", "O", "2">>
ABP == <<"A", "B", "P">>
Zero == <<"0">>
Empty == << >>

\* ConfigManager::getVitalSignLabels
labels == <<HR, SpO2, ABP>>

LabelSet == {labels[i] : i \in 1..Len(labels)}

Digits == {"0", "1", "2", "3", "4", "5", "6", "7", "8", "9"}

Letters ==
    {"a", "b", "c", "d", "e", "f", "g", "h", "i", "j", "k", "l", "m",
     "n", "o", "p", "q", "r", "s", "t", "u", "v", "w", "x", "y", "z",
     "A", "B", "C", "D", "E", "F", "G", "H", "I", "J", "K", "L", "M",
     "N", "O", "P", "Q", "R", "S", "T", "U", "V", "W", "X", "Y", "Z"}

\* the characters \b counts as word characters (ECMAScript \w)
WordChars == Letters \cup Digits \cup {"_"}

IsWordCharAt(w, k) == k \in 1..Len(w) /\ w[k] \in WordChars

\* \b between the characters k-1 and k of w
WordBoundary(w, k) == IsWordCharAt(w, k - 1) # IsWordCharAt(w, k)

\* regex_search(w, spo2_pattern): \bsp[o0]2\b, icase, anywhere in w
spo2_pattern(w) ==
    \E i \in 1..(Len(w) - 3) :
        /\ WordBoundary(w, i)
        /\ w[i] \in {"s", "S"}
        /\ w[i + 1] \in {"p", "P"}
        /\ w[i + 2] \in {"o", "O", "0"}
        /\ w[i + 3] = "2"
        /\ WordBoundary(w, i + 4)

\* regex_match(w, bp_pattern): ^\d{2,3}/\d{2,3}$ on the whole of w
bp_pattern(w) ==
    \E n \in 2..3 : \E m \in 2..3 :
        /\ Len(w) = n + 1 + m
        /\ \A i \in 1..n : w[i] \in Digits
        /\ w[n + 1] = "/"
        /\ \A i \in (n + 2)..(n + 1 + m) : w[i] \in Digits

\* w.find("/") != string::npos
ContainsSlash(w) == \E i \in 1..Len(w) : w[i] = "/"

\* find(labels.begin(), labels.end(), w) != labels.end()
IsLabelName(w) == \E i \in 1..Len(labels) : labels[i] = w

----------------------------------------------------------------------------
(* The program's constants *)

\* ConfigManager::getOCRConfidenceThreshold, its default
ConfidenceThreshold == 50

\* numeric_limits<double>::max(): above every distance
DBL_MAX == 2147483647

\* the {"", -1, -1, -1, -1} of processFrame; the box size w, h is read by no
\* code and is left out of DetectedText
Sentinel == [word |-> Empty, x |-> -1, y |-> -1]

----------------------------------------------------------------------------
(* findClosestNumber *)

\* calculateDistance, squared: sqrt is strictly increasing and exact enough
\* on the integers below 2^52, so the comparisons of findClosestNumber on
\* sqrt(d) are the comparisons on d
calculateDistance(x1, y1, x2, y2) ==
    (x1 - x2) * (x1 - x2) + (y1 - y2) * (y1 - y2)

\* the mutated comparison: a later candidate at the same distance wins
DistanceLessOrEqual(distance, minDistance) == distance <= minDistance

\* the test of line 69
DistanceLess(distance, minDistance) == distance < minDistance

RECURSIVE ClosestLoop(_, _, _, _, _)
\* the for loop of lines 67-73, from candidate i on
ClosestLoop(labelData, nums, i, minDistance, closestNum) ==
    IF i > Len(nums) THEN closestNum
    ELSE LET distance == calculateDistance(labelData.x, labelData.y,
                                           nums[i].x, nums[i].y)
         IN IF DistanceLess(distance, minDistance)
            THEN ClosestLoop(labelData, nums, i + 1, distance, nums[i].word)
            ELSE ClosestLoop(labelData, nums, i + 1, minDistance, closestNum)

\* the mutated associator: a label whose slot is empty gets "0"
findClosestNumberFoundOnly(labelData, nums) ==
    IF nums = << >> \/ labelData.x = -1 THEN Zero
    ELSE ClosestLoop(labelData, nums, 1, DBL_MAX, Zero)

findClosestNumber(labelData, nums) ==
    IF nums = << >> THEN Zero
    ELSE ClosestLoop(labelData, nums, 1, DBL_MAX, Zero)

----------------------------------------------------------------------------
(* processFrame *)

\* lines 84-86
InitialLabels == [l \in LabelSet |-> Sentinel]

\* the mutated threshold test: a word at the threshold is kept
AboveThresholdOrEqual(conf) == conf >= ConfidenceThreshold

\* the test conf > confidenceThreshold of line 101
AboveThreshold(conf) == conf > ConfidenceThreshold

\* the mutated chain: the slash test comes before the label tests
ClassifySlashFirst(st, detected) ==
    IF bp_pattern(detected.word) \/ ContainsSlash(detected.word)
    THEN [st EXCEPT !.numbers = Append(@, detected)]
    ELSE IF spo2_pattern(detected.word)
    THEN [st EXCEPT !.labels[SpO2] = detected]
    ELSE IF IsLabelName(detected.word)
    THEN [st EXCEPT !.labels[detected.word] = detected]
    ELSE st

\* the mutated chain: a label slot already filled is kept (first wins)
ClassifyFirstWins(st, detected) ==
    IF spo2_pattern(detected.word)
    THEN IF st.labels[SpO2] = Sentinel
         THEN [st EXCEPT !.labels[SpO2] = detected] ELSE st
    ELSE IF IsLabelName(detected.word)
    THEN IF st.labels[detected.word] = Sentinel
         THEN [st EXCEPT !.labels[detected.word] = detected] ELSE st
    ELSE IF bp_pattern(detected.word) \/ ContainsSlash(detected.word)
    THEN [st EXCEPT !.numbers = Append(@, detected)]
    ELSE st

\* the mutated chain: a word of digits alone is a number candidate too
ClassifyPlainNumbers(st, detected) ==
    IF spo2_pattern(detected.word)
    THEN [st EXCEPT !.labels[SpO2] = detected]
    ELSE IF IsLabelName(detected.word)
    THEN [st EXCEPT !.labels[detected.word] = detected]
    ELSE IF \/ bp_pattern(detected.word) \/ ContainsSlash(detected.word)
            \/ /\ detected.word # Empty
               /\ \A k \in 1..Len(detected.word) : detected.word[k] \in Digits
    THEN [st EXCEPT !.numbers = Append(@, detected)]
    ELSE st

\* the if / else if chain of lines 106-112
Classify(st, detected) ==
    IF spo2_pattern(detected.word)
    THEN [st EXCEPT !.labels[SpO2] = detected]
    ELSE IF IsLabelName(detected.word)
    THEN [st EXCEPT !.labels[detected.word] = detected]
    ELSE IF bp_pattern(detected.word) \/ ContainsSlash(detected.word)
    THEN [st EXCEPT !.numbers = Append(@, detected)]
    ELSE st

\* one turn of the do-while loop of lines 95-115 on the word tok
OcrWord(st, tok) ==
    IF AboveThreshold(tok.conf)
    THEN Classify(st, [word |-> tok.text, x |-> tok.x, y |-> tok.y])
    ELSE st

RECURSIVE OcrLoop(_, _, _)
\* the do-while loop of lines 95-115, from word i on
OcrLoop(st, toks, i) ==
    IF i > Len(toks) THEN st
    ELSE OcrLoop(OcrWord(st, toks[i]), toks, i + 1)

\* the mutated associator: a candidate given to a label is taken out of the
\* list that the later labels are matched against
AssociateConsuming(dl, nums) ==
    LET hr == findClosestNumber(dl[HR], nums)
        rest1 == SelectSeq(nums, LAMBDA n : n.word # hr)
        sp == findClosestNumber(dl[SpO2], rest1)
        rest2 == SelectSeq(rest1, LAMBDA n : n.word # sp)
        ab == findClosestNumber(dl[ABP], rest2)
    IN [l \in LabelSet |-> IF l = HR THEN hr ELSE IF l = SpO2 THEN sp ELSE ab]

\* lines 119-121
Associate(dl, nums) == [l \in LabelSet |-> findClosestNumber(dl[l], nums)]

\* the mutated gate: HR survives a malformed ABP
ValidateKeepsHR(ev, last) ==
    IF ~bp_pattern(ev[ABP])
    THEN [values |-> [ev EXCEPT ![SpO2] = Zero, ![ABP] = Zero],
          last |-> last]
    ELSE IF ev[SpO2] = Zero \/ ev[SpO2] = Empty
    THEN [values |-> [ev EXCEPT ![SpO2] = last], last |-> last]
    ELSE [values |-> ev, last |-> ev[SpO2]]

\* the mutated gate: the fallback is refreshed before the ABP test
ValidateStoresFirst(ev, last) ==
    IF ~bp_pattern(ev[ABP])
    THEN [values |-> [ev EXCEPT ![HR] = Zero, ![SpO2] = Zero, ![ABP] = Zero],
          last |-> IF ev[SpO2] = Zero \/ ev[SpO2] = Empty
                   THEN last ELSE ev[SpO2]]
    ELSE IF ev[SpO2] = Zero \/ ev[SpO2] = Empty
    THEN [values |-> [ev EXCEPT ![SpO2] = last], last |-> last]
    ELSE [values |-> ev, last |-> ev[SpO2]]

\* the mutated gate: a well-formed ABP still clears HR
ValidateClearsHR(ev, last) ==
    IF ~bp_pattern(ev[ABP])
    THEN [values |-> [ev EXCEPT ![HR] = Zero, ![SpO2] = Zero, ![ABP] = Zero],
          last |-> last]
    ELSE IF ev[SpO2] = Zero \/ ev[SpO2] = Empty
    THEN [values |-> [ev EXCEPT ![HR] = Zero, ![SpO2] = last], last |-> last]
    ELSE [values |-> [ev EXCEPT ![HR] = Zero], last |-> ev[SpO2]]

\* lines 123-135: the returned map and the new last_spo2_value
Validate(ev, last) ==
    IF ~bp_pattern(ev[ABP])
    THEN [values |-> [ev EXCEPT ![HR] = Zero, ![SpO2] = Zero, ![ABP] = Zero],
          last |-> last]
    ELSE IF ev[SpO2] = Zero \/ ev[SpO2] = Empty
    THEN [values |-> [ev EXCEPT ![SpO2] = last], last |-> last]
    ELSE [values |-> ev, last |-> ev[SpO2]]

----------------------------------------------------------------------------
(* The frames: what the OCR iterator can yield *)

\* words per enumerated frame
MaxTokens == 2

W_sp02 == <<"s", "p", "0", "2">>
W_SpO2Slash == <<"S", "p", "O", "2", "/", "9">>
W_120_80 == <<"1", "2", "0", "/", "8", "0">>
W_98_60 == <<"9", "8", "/", "6", "0">>
W_1_2 == <<"1", "/", "2">>
W_72 == <<"7", "2">>
W_97 == <<"9", "7">>
W_93 == <<"9", "3">>
W_81 == <<"8", "1">>
W_abc == <<"a", "b", "c">>

\* the texts of the enumerated frames: the label names, a spelling variant
\* of SpO2, a variant with a slash, a well-formed and a malformed slash
\* word, a plain number
Words == {HR, W_sp02, ABP, W_SpO2Slash, W_120_80, W_1_2, W_72}

\* box corners; (3,4) and (0,5) are equally far from (0,0)
Positions == {<<0, 0>>, <<3, 4>>, <<0, 5>>}

\* the confidence at the threshold and just above it
Confs == {ConfidenceThreshold, ConfidenceThreshold + 1}

Tok(w, c, px, py) == [text |-> w, conf |-> c, x |-> px, y |-> py]

Tokens == {Tok(w, c, p[1], p[2]) : w \in Words, c \in Confs, p \in Positions}

GenericFrames == UNION {[1..n -> Tokens] : n \in 0..MaxTokens}

\* a confidence well above the threshold
Sure == ConfidenceThreshold + 40

\* a confidence well below the threshold
Unsure == ConfidenceThreshold - 40

ScenarioA ==
    <<Tok(HR, Sure, 0, 0), Tok(W_72, Sure, 2, 1),
      Tok(SpO2, Sure, 50, 0), Tok(W_97, Sure, 52, 2),
      Tok(ABP, Sure, 100, 0), Tok(W_120_80, Sure, 101, 1)>>

ScenarioB ==
    <<Tok(HR, Sure, 0, 0), Tok(W_72, Sure, 2, 1),
      Tok(SpO2, Sure, 50, 0), Tok(W_97, Sure, 52, 2),
      Tok(ABP, Sure, 100, 0), Tok(W_abc, Sure, 101, 1)>>

ScenarioC ==
    <<Tok(HR, Sure, 0, 0), Tok(W_72, Sure, 2, 1),
      Tok(ABP, Sure, 100, 0), Tok(W_120_80, Sure, 101, 1)>>

\* label at (0,0), candidates at (10,0) and (3,4)
NearestExample ==
    <<Tok(HR, Sure, 0, 0), Tok(W_120_80, Sure, 10, 0),
      Tok(W_98_60, Sure, 3, 4)>>

\* a monitor that shows every reading in slash form, each beside its label
SlashDisplay ==
    <<Tok(HR, Sure, 0, 0), Tok(W_1_2, Sure, 2, 1),
      Tok(W_sp02, Sure, 50, 0), Tok(W_98_60, Sure, 52, 2),
      Tok(ABP, Sure, 100, 0), Tok(W_120_80, Sure, 101, 1)>>

\* SpO2 read twice, in two spellings, with one reading beside the second
TwoSpellings ==
    <<Tok(SpO2, Sure, 0, 0), Tok(W_sp02, Sure, 50, 0),
      Tok(W_98_60, Sure, 52, 2)>>

\* the same label read twice, and words the OCR is unsure of
NoisyDisplay ==
    <<Tok(ABP, Sure, 0, 0), Tok(W_98_60, Unsure, 1, 1),
      Tok(ABP, Sure, 100, 0), Tok(W_120_80, Sure, 101, 1),
      Tok(ABP, Unsure, 50, 0), Tok(W_1_2, Sure, 3, 4)>>

ScenarioFrames ==
    {ScenarioA, ScenarioB, ScenarioC, NearestExample, SlashDisplay,
     NoisyDisplay}

Frames == GenericFrames \cup ScenarioFrames

\* vital_signs.default_spo2 as configured: the default "81", or "93"
DefaultSpO2s == {W_81, W_93}

\* every position a label or the sentinel can have in Frames
LabelPositions ==
    {<<-1, -1>>} \cup Positions
        \cup UNION {{<<f[i].x, f[i].y>> : i \in 1..Len(f)} : f \in ScenarioFrames}

----------------------------------------------------------------------------
(* The state machine *)

NoValues == [l \in LabelSet |-> Empty]

\* main up to the loop: labels and last_spo2_value are set from the
\* configuration (lines 229-230); no frame has been processed
Init ==
    /\ pc = "idle"
    /\ last_spo2_value \in DefaultSpO2s
    /\ frame = << >>
    /\ detectedLabels = InitialLabels
    /\ detectedNumbers = << >>
    /\ associated = NoValues
    /\ extractedValues = NoValues
    /\ prev_spo2 = last_spo2_value

\* the call healthData = processFrame(frame) of line 319, on the words f
processFrame(f) ==
    /\ pc = "idle"
    /\ \E st \in {OcrLoop([labels |-> InitialLabels, numbers |-> << >>],
                           f, 1)} :
           /\ detectedLabels' = st.labels
           /\ detectedNumbers' = st.numbers
           /\ associated' = Associate(st.labels, st.numbers)
    /\ \E v \in {Validate(associated', last_spo2_value)} :
           /\ extractedValues' = v.values
           /\ last_spo2_value' = v.last
    /\ frame' = f
    /\ prev_spo2' = last_spo2_value
    /\ pc' = "returned"

\* the rest of the loop body (lines 321-417): the record is written out and
\* healthData goes out of scope; the next iteration pulls a new frame
NextIteration ==
    /\ pc = "returned"
    /\ pc' = "idle"
    /\ frame' = << >>
    /\ detectedLabels' = InitialLabels
    /\ detectedNumbers' = << >>
    /\ associated' = NoValues
    /\ extractedValues' = NoValues
    /\ prev_spo2' = last_spo2_value
    /\ UNCHANGED last_spo2_value


----------------------------------------------------------------------------
(* main: start-up, the loop, the sinks, the signal handler, the clean-up *)

\* enum class LogLevel
DEBUG == 0
INFO == 1
WARN == 2
ERROR == 3
CRITICAL == 4

\* the levels main passes to Logger::init (lines 209-214): "info", which
\* "debug" resembles in letting the LOG_INFO messages through, and "warn",
\* which "error" resembles in holding them back
LogLevels == {INFO, WARN}

\* video.processing_interval, video.reconnect_attempts and
\* database.retry_attempts as configured for the runs explored, and the
\* number of frames after which the source delivers only empty frames
ProcessingInterval == 2
ReconnectAttempts == 2
DBRetryAttempts == 2
MaxFrames == 3

\* Logger::log up to line 88: does a message of this level reach the
\* lock_guard of line 90
Passes(level) == initialized_ /\ level >= currentLevel_

\* Logger::mutex_ when main has just made log calls of these levels: main is
\* inside the last call that passed, holding the mutex, until it returns
AfterLogging(levels) ==
    IF \E level \in levels : Passes(level) THEN "main" ELSE "free"

(* initializeCamera *)

\* the mutated loop test: one attempt fewer
AnotherAttemptStrict(attempt, maxAttempts) == attempt < maxAttempts

\* the loop test of line 166
AnotherAttempt(attempt, maxAttempts) == attempt <= maxAttempts

\* the test of line 185
SleepsAfter(attempt, maxAttempts) == attempt < maxAttempts

RECURSIVE CameraLoop(_, _, _, _)
\* the for loop of lines 166-188 from attempt on; opens[k] tells whether
\* cap.open succeeds at attempt k
CameraLoop(attempt, maxAttempts, opens, sleeps) ==
    IF ~AnotherAttempt(attempt, maxAttempts)
    THEN [opened |-> FALSE, attempts |-> attempt - 1, sleeps |-> sleeps,
          opens |-> opens]
    ELSE IF opens[attempt]
    THEN [opened |-> TRUE, attempts |-> attempt, sleeps |-> sleeps,
          opens |-> opens]
    ELSE CameraLoop(attempt + 1, maxAttempts, opens,
                    IF SleepsAfter(attempt, maxAttempts)
                    THEN sleeps + 1 ELSE sleeps)

initializeCamera(opens) == CameraLoop(1, ReconnectAttempts, opens, 0)

\* what the video source can answer to the attempts of one call
CameraOpens == [1..ReconnectAttempts -> BOOLEAN]

\* the levels initializeCamera logs at: INFO per attempt, WARN per failed
\* attempt, ERROR after the last one
CameraLevels(r) ==
    {INFO} \cup (IF r.attempts > 1 \/ ~r.opened THEN {WARN} ELSE {})
           \cup (IF ~r.opened THEN {ERROR} ELSE {})

\* no call of initializeCamera made yet
NoCamera ==
    [opened |-> FALSE, attempts |-> 0, sleeps |-> 0,
     opens |-> [k \in 1..ReconnectAttempts |-> FALSE]]

(* DatabaseManager *)

isConnected(c) == c = "ok"

disconnect(c) == "null"

\* connect; up tells whether PQconnectdb yields a good connection
connect(c, up) ==
    IF isConnected(c) THEN [ok |-> TRUE, conn |-> c]
    ELSE IF up THEN [ok |-> TRUE, conn |-> "ok"]
    ELSE [ok |-> FALSE, conn |-> "null"]

RECURSIVE ReconnectLoop(_, _, _, _)
\* the for loop of lines 242-255 from attempt on
ReconnectLoop(attempt, maxAttempts, ups, c) ==
    IF attempt > maxAttempts
    THEN [ok |-> FALSE, conn |-> c, connects |-> attempt - 1]
    ELSE LET r == connect(disconnect(c), ups[attempt])
         IN IF r.ok
            THEN [ok |-> TRUE, conn |-> r.conn, connects |-> attempt]
            ELSE ReconnectLoop(attempt + 1, maxAttempts, ups, r.conn)

reconnect(c, ups) == ReconnectLoop(1, DBRetryAttempts, ups, c)

\* insertVitalSign: is the row stored; exec tells whether PQexec succeeds
insertVitalSign(c, exec) == isConnected(c) /\ exec

\* what the database server and the network can do during one record:
\* the connection is still alive when main tests it, the first INSERT
\* succeeds, the state a failed INSERT leaves the connection in, the answers
\* to the connection attempts, the second INSERT succeeds
DbEnvs ==
    [alive : BOOLEAN, exec1 : BOOLEAN, after1 : {"ok", "bad"},
     ups : [1..DBRetryAttempts -> BOOLEAN], exec2 : BOOLEAN]

\* no database call made
NoDbCalls ==
    [conn |-> "null", stored |-> 0, inserts |-> 0, sequences |-> 0,
     connects |-> 0, skipped |-> FALSE, first |-> FALSE, retry |-> FALSE,
     reconnected |-> FALSE]

\* the mutated sink: the insert is repeated after every reconnect sequence,
\* and once more when the first one succeeded after a lost connection
SaveRecordRetryAlways(c, enabled, env) ==
    IF ~(enabled /\ isConnected(c))
    THEN [NoDbCalls EXCEPT !.conn = c, !.skipped = enabled]
    ELSE IF insertVitalSign(c, env.exec1)
    THEN [NoDbCalls EXCEPT !.conn = c, !.inserts = IF env.exec2 THEN 2 ELSE 1,
                           !.stored = IF env.exec2 THEN 2 ELSE 1,
                           !.first = TRUE]
    ELSE LET rc == reconnect(env.after1, env.ups)
             second == insertVitalSign(rc.conn, env.exec2)
         IN [NoDbCalls EXCEPT !.conn = rc.conn,
                              !.stored = IF second THEN 1 ELSE 0,
                              !.inserts = 2, !.sequences = 1,
                              !.connects = rc.connects,
                              !.retry = second, !.reconnected = rc.ok]

\* lines 389-404 for one record, from the connection state c that the test
\* of line 389 sees
SaveRecord(c, enabled, env) ==
    IF ~(enabled /\ isConnected(c))
    THEN [NoDbCalls EXCEPT !.conn = c, !.skipped = enabled]
    ELSE IF insertVitalSign(c, env.exec1)
    THEN [NoDbCalls EXCEPT !.conn = c, !.stored = 1, !.inserts = 1,
                           !.first = TRUE]
    ELSE LET rc == reconnect(env.after1, env.ups)
         IN IF rc.ok
            THEN LET second == insertVitalSign(rc.conn, env.exec2)
                 IN [NoDbCalls EXCEPT !.conn = rc.conn,
                                      !.stored = IF second THEN 1 ELSE 0,
                                      !.inserts = 2, !.sequences = 1,
                                      !.connects = rc.connects,
                                      !.retry = second, !.reconnected = TRUE]
            ELSE [NoDbCalls EXCEPT !.conn = rc.conn, !.inserts = 1,
                                   !.sequences = 1, !.connects = rc.connects]

\* the levels the database sink logs at for one record
DbLevels(r) == IF r.inserts = 0 THEN {} ELSE IF r.first THEN {DEBUG}
               ELSE {ERROR, WARN, INFO}

(* the classifier *)

\* ecgClassification and ecgConfidence as declared (lines 338-339)
NoEcg == [label |-> "unknown", confidence |-> 0]

\* result.classification[ix].label
ClassLabels == <<"first", "second">>

\* what run_classifier can return: an error, or a value per label (in tenths)
ClassifierRuns ==
    {[res |-> 1, values |-> <<0, 0>>]}
        \cup {[res |-> 0, values |-> v] : v \in {<<0, 0>>, <<5, 9>>, <<9, 9>>}}

RECURSIVE BestLoop(_, _, _, _)
\* the for loop of lines 350-361 from ix on
BestLoop(values, ix, maxConfidence, best) ==
    IF ix > Len(values) THEN best
    ELSE IF values[ix] > maxConfidence
    THEN BestLoop(values, ix + 1, values[ix],
                  [label |-> ClassLabels[ix], confidence |-> values[ix]])
    ELSE BestLoop(values, ix + 1, maxConfidence, best)

\* the mutated classifier block: without a result the first label is
\* attached
ClassificationFirstLabel(enabled, run) ==
    IF enabled /\ run.res = 0 THEN BestLoop(run.values, 1, 0, NoEcg)
    ELSE [label |-> ClassLabels[1], confidence |-> 0]

\* lines 338-366
Classification(enabled, run) ==
    IF enabled /\ run.res = 0 THEN BestLoop(run.values, 1, 0, NoEcg)
    ELSE NoEcg

\* run_classifier is not called for the frame in hand
NoInference == [called |-> FALSE, res |-> 0, values |-> <<0, 0>>]

\* run_classifier has returned run for the frame in hand
Inferred(run) == [called |-> TRUE, res |-> run.res, values |-> run.values]

\* the levels the classifier block logs at
ClassifierLevels(enabled, run) ==
    IF ~enabled THEN {} ELSE IF run.res = 0 THEN {DEBUG} ELSE {ERROR}

(* the sinks *)

Header == [text |-> "header", frame |-> 0]

Row(n) == [text |-> "record", frame |-> n]

\* the frames the source shows in the runs of main: a well-formed display,
\* one with a malformed ABP, one without a number candidate, one with a
\* candidate and no label, and two in which a label is read more than once
MainFrames ==
    {ScenarioA, ScenarioB, << >>, <<Tok(W_1_2, Sure, 0, 0)>>, NoisyDisplay,
     TwoSpellings}

\* the connection has not been found lost
NoLoss == [found |-> FALSE, later |-> 0, reconnects |-> 0]

\* the exit status the environment sees when main returns ret
ExitStatus(ret) == ret % 256

----------------------------------------------------------------------------
(* ConfigManager: the file, the store and the getters *)

T_true == <<"t", "r", "u", "e">>
T_false == <<"f", "a", "l", "s", "e">>
T_null == <<"n", "u", "l", "l">>
T_7 == <<"7">>
T_3 == <<"3">>
T_minus == <<"-">>
T_0 == <<"0">>
T_minus3 == <<"-", "3">>
T_12abc == <<"1", "2", "a", "b", "c">>
T_huge == <<"9", "9", "9", "9", "9", "9", "9", "9", "9", "9">>

\* numeric_limits<int>::max(), the range of std::stoi
INT_MAX == 2147483647

\* a member of the file: "name": value, inside the object of a section; an
\* object that opens a section is a member too, named as the section
Member(section, name, kind, text) ==
    [section |-> section, name |-> name, kind |-> kind, text |-> text]

RECURSIVE FindName(_, _, _)
\* content.find("\"key\""), line 37: the first member so named, wherever it
\* is in the file; 0 for npos
FindName(doc, key, i) ==
    IF i > Len(doc) THEN 0
    ELSE IF doc[i].name = key THEN i
    ELSE FindName(doc, key, i + 1)

RECURSIVE FindInSection(_, _, _, _)
\* the member so named of the object section, as a JSON reader finds it; 0
\* when the section has none
FindInSection(doc, section, key, i) ==
    IF i > Len(doc) THEN 0
    ELSE IF doc[i].name = key /\ doc[i].section = section THEN i
    ELSE FindInSection(doc, section, key, i + 1)

\* extractValue, lines 35-68: the text between the quotes of a string, the
\* text of a literal that begins with t, f, a digit or -, else ""
extractValue(doc, key) ==
    LET pos == FindName(doc, key, 1)
    IN IF pos = 0 THEN Empty
       ELSE IF doc[pos].kind = "string" THEN doc[pos].text
       ELSE IF /\ doc[pos].kind = "literal"
               /\ doc[pos].text # Empty
               /\ doc[pos].text[1] \in {"t", "f", "-"} \cup Digits
       THEN doc[pos].text
       ELSE Empty

\* the keys of config_ that the getters below read
ConfigKeys ==
    {"video.processing_interval", "video.reconnect_attempts",
     "vital_signs.default_spo2", "ml_model.enabled", "database.enabled",
     "ocr.confidence_threshold", "ml_model.confidence_threshold"}

\* the name parseJSON looks each key up by (lines 85, 86, 91, 96, 108, 111,
\* 114)
LeafOf(key) ==
    CASE key = "video.processing_interval" -> "processing_interval"
      [] key = "video.reconnect_attempts" -> "reconnect_attempts"
      [] key = "vital_signs.default_spo2" -> "default_spo2"
      [] key = "ml_model.enabled" -> "enabled"
      [] key = "database.enabled" -> "enabled"
      [] key = "ocr.confidence_threshold" -> "confidence_threshold"
      [] key = "ml_model.confidence_threshold" -> "confidence_threshold"

\* the section a key names
SectionOf(key) ==
    CASE key \in {"video.processing_interval", "video.reconnect_attempts"}
             -> "video"
      [] key = "vital_signs.default_spo2" -> "vital_signs"
      [] key \in {"ml_model.enabled", "ml_model.confidence_threshold"}
             -> "ml_model"
      [] key = "database.enabled" -> "database"
      [] key = "ocr.confidence_threshold" -> "ocr"

\* the mutated parser: each key is looked up among the members of its own
\* section
parseJSONInSection(doc) ==
    [key \in ConfigKeys |->
        LET pos == FindInSection(doc, SectionOf(key), LeafOf(key), 1)
        IN IF pos = 0 THEN Empty
           ELSE IF doc[pos].kind = "string" THEN doc[pos].text
           ELSE IF /\ doc[pos].kind = "literal"
                   /\ doc[pos].text # Empty
                   /\ doc[pos].text[1] \in {"t", "f", "-"} \cup Digits
           THEN doc[pos].text
           ELSE Empty]

\* parseJSON, lines 70-144
parseJSON(doc) == [key \in ConfigKeys |-> extractValue(doc, LeafOf(key))]

\* config_ of a ConfigManager that has loaded nothing
EmptyMap == [key \in {} |-> Empty]

DigitChars == <<"0", "1", "2", "3", "4", "5", "6", "7", "8", "9">>

DigitValue(c) == (CHOOSE d \in 1..Len(DigitChars) : DigitChars[d] = c) - 1

RECURSIVE DigitsFrom(_, _, _)
\* the digits of text from i on, up to the first other character: how many,
\* their value, and whether the value has left the range of int
DigitsFrom(text, i, acc) ==
    IF i > Len(text) \/ text[i] \notin Digits THEN acc
    ELSE LET d == DigitValue(text[i])
         IN IF acc.over \/ acc.value > (INT_MAX - d) \div 10
            THEN DigitsFrom(text, i + 1,
                            [count |-> acc.count + 1, value |-> 0,
                             over |-> TRUE])
            ELSE DigitsFrom(text, i + 1,
                            [count |-> acc.count + 1,
                             value |-> acc.value * 10 + d, over |-> FALSE])

\* std::stoi: an optional sign and the digits that follow; it throws when
\* there is no digit (invalid_argument) or the value is out of range
stoi(text) ==
    LET signed == text # Empty /\ text[1] \in {"-", "+"}
        negative == text # Empty /\ text[1] = "-"
        r == DigitsFrom(text, IF signed THEN 2 ELSE 1,
                        [count |-> 0, value |-> 0, over |-> FALSE])
    IN [ok |-> r.count > 0 /\ ~r.over,
        value |-> IF negative THEN 0 - r.value ELSE r.value]

UpperChars ==
    <<"A", "B", "C", "D", "E", "F", "G", "H", "I", "J", "K", "L", "M",
      "N", "O", "P", "Q", "R", "S", "T", "U", "V", "W", "X", "Y", "Z">>

LowerChars ==
    <<"a", "b", "c", "d", "e", "f", "g", "h", "i", "j", "k", "l", "m",
      "n", "o", "p", "q", "r", "s", "t", "u", "v", "w", "x", "y", "z">>

\* ::tolower
tolower(c) ==
    IF \E k \in 1..Len(UpperChars) : UpperChars[k] = c
    THEN LowerChars[CHOOSE k \in 1..Len(UpperChars) : UpperChars[k] = c]
    ELSE c

\* the test of lines 149, 154, 166: the key is in the map, with a value
\* that is not empty
HasValue(cfg, key) == key \in DOMAIN cfg /\ cfg[key] # Empty

getString(cfg, key, defaultValue) ==
    IF HasValue(cfg, key) THEN cfg[key] ELSE defaultValue

getInt(cfg, key, defaultValue) ==
    IF HasValue(cfg, key)
    THEN LET r == stoi(cfg[key]) IN IF r.ok THEN r.value ELSE defaultValue
    ELSE defaultValue

getBool(cfg, key, defaultValue) ==
    IF HasValue(cfg, key)
    THEN LET value == [k \in 1..Len(cfg[key]) |-> tolower(cfg[key][k])]
         IN value = T_true \/ value = <<"1">>
    ELSE defaultValue

getProcessingInterval(cfg) == getInt(cfg, "video.processing_interval", 300)

getReconnectAttempts(cfg) == getInt(cfg, "video.reconnect_attempts", 5)

getDefaultSpO2(cfg) == getString(cfg, "vital_signs.default_spo2", W_81)

isMLModelEnabled(cfg) == getBool(cfg, "ml_model.enabled", TRUE)

isDatabaseEnabled(cfg) == getBool(cfg, "database.enabled", FALSE)

(* the configuration files *)

\* the member is not in the file
Absent == [kind |-> "absent", text |-> Empty]

String(text) == [kind |-> "string", text |-> text]

Literal(text) == [kind |-> "literal", text |-> text]

\* what a file can say for a flag: nothing, true, false, null, ""
FlagValues ==
    {Absent, Literal(T_true), Literal(T_false), Literal(T_null),
     String(Empty)}

\* what a file can say for a number: nothing, 7, 0, -3, -, "abc", "",
\* "12abc", a number beyond the range of int
NumberValues ==
    {Absent, Literal(T_7), Literal(T_0), Literal(T_minus3), Literal(T_minus),
     String(W_abc), String(Empty), String(T_12abc), Literal(T_huge)}

\* what a file can say for the default SpO2: nothing, "93", ""
SpO2Values == {Absent, String(W_93), String(Empty)}

\* the object of a section with the members that are there
Section(section, names, values) ==
    <<Member(section, section, "object", Empty)>>
        \o SelectSeq([k \in 1..Len(names) |->
                         Member(section, names[k], values[k].kind,
                                values[k].text)],
                     LAMBDA m : m.kind # "absent")

\* what a file can say for a confidence threshold: nothing or a number
OcrThresholds == {Absent, Literal(T_7)}

MlThresholds == {Absent, Literal(T_0)}

\* a file with the sections ml_model, database and ocr in either order, then
\* video and vital_signs
Document(mlFirst, ml, db, interval, attempts, spo2, ocrThr, mlThr) ==
    LET mlSection == Section("ml_model", <<"enabled", "confidence_threshold">>,
                             <<ml, mlThr>>)
        dbSection == Section("database", <<"enabled">>, <<db>>)
        ocrSection == Section("ocr", <<"confidence_threshold">>, <<ocrThr>>)
    IN (IF mlFirst THEN mlSection \o dbSection \o ocrSection
        ELSE ocrSection \o dbSection \o mlSection)
           \o Section("video", <<"processing_interval", "reconnect_attempts">>,
                      <<interval, attempts>>)
           \o Section("vital_signs", <<"default_spo2">>, <<spo2>>)

Documents ==
    {Document(mlFirst, ml, db, interval, attempts, spo2, ocrThr, mlThr) :
        mlFirst \in BOOLEAN, ml \in FlagValues, db \in FlagValues,
        interval \in NumberValues, attempts \in {Absent, Literal(T_3)},
        spo2 \in SpO2Values, ocrThr \in OcrThresholds, mlThr \in MlThresholds}

\* main has read nothing yet
NotRead ==
    [interval |-> 0, attempts |-> 0, spo2 |-> Empty, database |-> FALSE,
     ml |-> FALSE]

\* the configuration store left aside: the specifications of processFrame and
\* of main's loop take the configuration as given
ConfigAside ==
    /\ cfg_pc = "aside"
    /\ file_opens = FALSE
    /\ content = << >>
    /\ config_ = EmptyMap
    /\ loaded_ = FALSE
    /\ startup = NotRead

\* main entered, with a configuration file that cannot be opened or with one
\* of the files explored
ConfigInit ==
    /\ cfg_pc = "start"
    /\ \/ file_opens = FALSE /\ content = << >>
       \/ file_opens = TRUE /\ content \in Documents
    /\ config_ = EmptyMap
    /\ loaded_ = FALSE
    /\ startup = NotRead

\* config.loadConfig(configPath), main.cpp 203-206 and ConfigManager.cpp
\* 11-32; main goes on whatever it returns
loadConfig ==
    /\ cfg_pc = "start"
    /\ IF file_opens
       THEN /\ config_' = parseJSON(content)
            /\ loaded_' = TRUE
            /\ cfg_pc' = "loaded"
       ELSE /\ UNCHANGED <<config_, loaded_>>
            /\ cfg_pc' = "not_loaded"
    /\ UNCHANGED <<file_opens, content, startup>>
    /\ UNCHANGED <<vars, mvars, lvars>>

\* main reads the getters: lines 230, 241, 287, 341 of main.cpp and line 163
\* of initializeCamera
ReadSettings ==
    /\ cfg_pc \in {"loaded", "not_loaded"}
    /\ startup' = [interval |-> getProcessingInterval(config_),
                   attempts |-> getReconnectAttempts(config_),
                   spo2 |-> getDefaultSpO2(config_),
                   database |-> isDatabaseEnabled(config_),
                   ml |-> isMLModelEnabled(config_)]
    /\ cfg_pc' = "started"
    /\ UNCHANGED <<file_opens, content, config_, loaded_>>
    /\ UNCHANGED <<vars, mvars, lvars>>

\* a % b of C++ for a >= 0 and b # 0: the quotient is truncated towards 0,
\* so the remainder is that of the division by the magnitude of b
Remainder(a, b) == a % (IF b < 0 THEN 0 - b ELSE b)

\* the sampling test of line 311 on the first frame, frame_count = 0 (line
\* 286), with the interval read at line 287. With an interval of 0 the
\* remainder is undefined: the build traps (SIGFPE) or goes on either way
SamplingTest ==
    /\ cfg_pc = "started"
    /\ IF startup.interval = 0
       THEN cfg_pc' \in {"fault", "sampled", "skipped"}
       ELSE IF Remainder(0, startup.interval) = 0
       THEN cfg_pc' = "sampled"
       ELSE cfg_pc' = "skipped"
    /\ UNCHANGED <<file_opens, content, config_, loaded_, startup>>
    /\ UNCHANGED <<vars, mvars, lvars>>

----------------------------------------------------------------------------
(* Logger: the log file and its numbered backups *)

\* the largest logging.max_files explored
MaxLogFiles == 4

\* the rotations followed
MaxRotations == 5

\* the largest size threshold explored, in lines written
MaxLines == 3

\* no file under that name
NoFile == [born |-> 0 - 1, lines |-> 0]

\* a file opened empty after born rotations: born tells its content from the
\* content of every other file, and orders the contents by age
NewFile(born) == [born |-> born, lines |-> 0]

\* the names logFilePath_ (0) and logFilePath_ + "." + i
FileNames == 0..MaxLogFiles

Backups(dir) == {i \in FileNames \ {0} : dir[i] # NoFile}

RECURSIVE RotateLoop(_, _, _)
\* the loop of lines 162-173, from i down to 1
RotateLoop(dir, i, maxFiles) ==
    IF i <= 0 THEN dir
    ELSE LET moved ==
                 IF dir[i] = NoFile THEN dir
                 ELSE IF i = maxFiles - 1 THEN [dir EXCEPT ![i] = NoFile]
                 ELSE [dir EXCEPT ![i + 1] = dir[i], ![i] = NoFile]
         IN RotateLoop(moved, i - 1, maxFiles)

\* rotateLogFile, lines 156-187: the loop, the rename of the active file to
\* .1 and the reopening, which the file system lets succeed or not
rotateLogFile(dir, maxFiles, reopens, born) ==
    LET shifted == RotateLoop(dir, maxFiles - 1, maxFiles)
        renamed == IF shifted[0] = NoFile THEN shifted
                   ELSE [shifted EXCEPT ![1] = shifted[0], ![0] = NoFile]
    IN [renamed EXCEPT ![0] = IF reopens THEN NewFile(born) ELSE NoFile]

\* the logger left aside: nothing is written to a file
LogsAside ==
    /\ maxFiles_ = 5
    /\ maxFileLines_ = 1
    /\ fileEnabled_ = FALSE
    /\ files = [i \in FileNames |-> NoFile]
    /\ rotations = 0

\* Logger::init has returned, lines 19-52: the log file is open and empty in
\* a directory with no backup, max_files and the threshold are as configured
LogInit ==
    /\ maxFiles_ \in 0..MaxLogFiles
    /\ maxFileLines_ \in 1..MaxLines
    /\ fileEnabled_ = TRUE
    /\ files = [i \in FileNames |-> IF i = 0 THEN NewFile(0) ELSE NoFile]
    /\ rotations = 0

\* Logger::log with file output, lines 104-110, and checkAndRotate, lines
\* 144-154: the line is written, then the file is rotated when it has
\* reached the threshold
LogLine(reopens) ==
    /\ fileEnabled_
    /\ rotations < MaxRotations
    /\ LET written == [files EXCEPT ![0].lines = @ + 1]
       IN IF written[0].lines >= maxFileLines_
          THEN /\ files' = rotateLogFile(written, maxFiles_, reopens,
                                         rotations + 1)
               /\ rotations' = rotations + 1
               /\ fileEnabled_' = reopens
          ELSE /\ files' = written
               /\ UNCHANGED <<rotations, fileEnabled_>>
    /\ UNCHANGED <<maxFiles_, maxFileLines_>>
    /\ UNCHANGED <<vars, mvars, cvars>>

(* the state of main *)

\* the configuration and the build: fixed once the process runs
settings ==
    <<relock_blocks, currentLevel_, consoleOutput, debugMode, mlEnabled>>

\* the configurations explored: the defaults, and others in which every
\* flag takes both values, the database is used with and without the console
\* line and the debug window, and each level is used with and without it
Configurations ==
    {[level |-> INFO, database |-> FALSE, console |-> TRUE, debug |-> FALSE,
      ml |-> TRUE],
     [level |-> INFO, database |-> TRUE, console |-> TRUE, debug |-> FALSE,
      ml |-> TRUE],
     [level |-> WARN, database |-> TRUE, console |-> FALSE, debug |-> TRUE,
      ml |-> TRUE],
     [level |-> WARN, database |-> FALSE, console |-> FALSE, debug |-> FALSE,
      ml |-> FALSE],
     [level |-> INFO, database |-> TRUE, console |-> TRUE, debug |-> TRUE,
      ml |-> FALSE],
     [level |-> WARN, database |-> FALSE, console |-> TRUE, debug |-> TRUE,
      ml |-> TRUE]}

\* main has not been entered
NotStarted ==
    /\ main_pc = "start"
    /\ relock_blocks = FALSE
    /\ currentLevel_ = INFO
    /\ initialized_ = FALSE
    /\ logger_mutex = "free"
    /\ g_shutdown = FALSE
    /\ handler = "none"
    /\ dbEnabled = FALSE
    /\ conn_ = "null"
    /\ csvFile = "closed"
    /\ consoleOutput = TRUE
    /\ debugMode = FALSE
    /\ mlEnabled = TRUE
    /\ cap = "closed"
    /\ frame_count = 0
    /\ sampled = FALSE
    /\ ecg = NoEcg
    /\ console = << >>
    /\ csvRows = << >>
    /\ dbRows = << >>
    /\ cam = NoCamera
    /\ db_trace = NoDbCalls
    /\ db_loss = NoLoss
    /\ last_empty = FALSE
    /\ stop_cause = "none"
    /\ flushed = FALSE
    /\ pulled = 0
    /\ csv_failed = FALSE
    /\ exit_code = {}
    /\ inference = NoInference
    /\ db_mutex = "free"
    /\ ocr = "idle"

\* main entered: the handlers are registered and the configuration is loaded
\* (lines 196-206); the build and the configuration are any of those explored
MainInit ==
    /\ Init
    /\ last_spo2_value = W_81
    /\ ConfigAside
    /\ LogsAside
    /\ main_pc = "start"
    /\ relock_blocks \in BOOLEAN
    /\ \E c \in Configurations :
           /\ currentLevel_ = c.level
           /\ dbEnabled = c.database
           /\ consoleOutput = c.console
           /\ debugMode = c.debug
           /\ mlEnabled = c.ml
    /\ initialized_ = FALSE
    /\ logger_mutex = "free"
    /\ g_shutdown = FALSE
    /\ handler = "none"
    /\ conn_ = "null"
    /\ csvFile = "closed"
    /\ cap = "closed"
    /\ frame_count = 0
    /\ sampled = FALSE
    /\ ecg = NoEcg
    /\ console = << >>
    /\ csvRows = << >>
    /\ dbRows = << >>
    /\ cam = NoCamera
    /\ db_trace = NoDbCalls
    /\ db_loss = NoLoss
    /\ last_empty = FALSE
    /\ stop_cause = "none"
    /\ flushed = FALSE
    /\ pulled = 0
    /\ csv_failed = FALSE
    /\ exit_code = {}
    /\ inference = NoInference
    /\ db_mutex = "free"
    /\ ocr = "idle"

\* main can take its next step: it is not inside a log call and is not
\* suspended under a signal handler that does not return
CanRun == handler # "blocked" /\ logger_mutex = "free"

\* the RUNNING state of the Scheduler: the while loop of lines 293-418
Running ==
    main_pc \in {"loop", "pull", "reopen", "sample", "output", "db",
                 "debug_key", "quit_key"}

\* the end of the loop body: the account of the iteration is closed
EndOfBody ==
    /\ sampled' = FALSE
    /\ db_trace' = NoDbCalls

(* start-up *)

\* Logger::init, lines 25-49: the mutex is taken and the fields are set
LoggerInitEnter ==
    /\ main_pc = "start"
    /\ handler # "blocked"
    /\ main_pc' = "logger_init"
    /\ logger_mutex' = "main"
    /\ UNCHANGED <<vars, settings, cvars, lvars, ocr,
                   pulled, csv_failed, exit_code, inference, db_mutex,
                   initialized_, g_shutdown, handler,
                   dbEnabled, conn_, csvFile, cap, frame_count, sampled, ecg,
                   console, csvRows, dbRows, cam, db_trace, db_loss,
                   last_empty, stop_cause, flushed>>

\* Logger::init, line 50
LoggerInitFlag ==
    /\ main_pc = "logger_init"
    /\ handler # "blocked"
    /\ main_pc' = "logger_info"
    /\ initialized_' = TRUE
    /\ UNCHANGED <<vars, settings, cvars, lvars, ocr,
                   pulled, csv_failed, exit_code, inference, db_mutex,
                   logger_mutex, g_shutdown, handler,
                   dbEnabled, conn_, csvFile, cap, frame_count, sampled, ecg,
                   console, csvRows, dbRows, cam, db_trace, db_loss,
                   last_empty, stop_cause, flushed>>

\* Logger::init, line 51: info() calls log(), which locks the mutex that init
\* holds when the level lets INFO through; then lines 225-226 of main
LoggerInitInfo ==
    /\ main_pc = "logger_info"
    /\ handler # "blocked"
    /\ IF Passes(INFO) /\ relock_blocks
       THEN main_pc' = "hung" /\ UNCHANGED logger_mutex
       ELSE main_pc' = "ocr_init" /\ logger_mutex' = AfterLogging({INFO})
    /\ UNCHANGED <<vars, settings, cvars, lvars, ocr,
                   pulled, csv_failed, exit_code, inference, db_mutex,
                   initialized_, g_shutdown, handler,
                   dbEnabled, conn_, csvFile, cap, frame_count, sampled, ecg,
                   console, csvRows, dbRows, cam, db_trace, db_loss,
                   last_empty, stop_cause, flushed>>

\* Logger::log returns: the lock_guard of line 90 is released
LogReturn ==
    /\ logger_mutex = "main"
    /\ main_pc \notin {"logger_init", "logger_info", "hung"}
    /\ handler # "blocked"
    /\ logger_mutex' = "free"
    /\ UNCHANGED <<vars, settings, cvars, lvars, ocr,
                   pulled, csv_failed, exit_code, inference, db_mutex,
                   main_pc, initialized_, g_shutdown, handler,
                   dbEnabled, conn_, csvFile, cap, frame_count, sampled, ecg,
                   console, csvRows, dbRows, cam, db_trace, db_loss,
                   last_empty, stop_cause, flushed>>

\* the mutated start-up: a failed ocr.Init is logged and main goes on
OcrInitGoesOn(ok) ==
    /\ main_pc = "ocr_init"
    /\ CanRun
    /\ main_pc' = "db_init"
    /\ ocr' = IF ok THEN "ready" ELSE "failed"
    /\ logger_mutex' = AfterLogging(IF ok THEN {INFO} ELSE {CRITICAL})
    /\ UNCHANGED <<vars, settings, cvars, lvars,
                   pulled, csv_failed, exit_code, inference,
                   db_mutex, initialized_, g_shutdown, handler, dbEnabled,
                   conn_, csvFile, cap, frame_count, sampled, ecg, console,
                   csvRows, dbRows, cam, db_trace, db_loss, last_empty,
                   stop_cause, flushed>>

\* lines 233-237
OcrInit(ok) ==
    /\ main_pc = "ocr_init"
    /\ CanRun
    /\ IF ok
       THEN /\ main_pc' = "db_init"
            /\ ocr' = "ready"
            /\ logger_mutex' = AfterLogging({INFO})
            /\ UNCHANGED exit_code
       ELSE /\ main_pc' = "exited"
            /\ ocr' = "failed"
            /\ logger_mutex' = "free"
            /\ exit_code' = {ExitStatus(-1)}
    /\ UNCHANGED <<vars, settings, cvars, lvars,
                   pulled, csv_failed, inference, db_mutex,
                   initialized_, g_shutdown, handler,
                   dbEnabled, conn_, csvFile, cap, frame_count, sampled, ecg,
                   console, csvRows, dbRows, cam, db_trace, db_loss,
                   last_empty, stop_cause, flushed>>

\* lines 240-262; DatabaseManager::init holds DatabaseManager::mutex_ when it
\* calls connect, which locks it again
DbInit(up) ==
    /\ main_pc = "db_init"
    /\ CanRun
    /\ IF ~dbEnabled
       THEN /\ main_pc' = "camera_init"
            /\ UNCHANGED <<dbEnabled, conn_, logger_mutex, db_mutex>>
       ELSE IF relock_blocks
       THEN /\ main_pc' = "hung"
            /\ db_mutex' = "main"
            /\ UNCHANGED <<dbEnabled, conn_, logger_mutex>>
       ELSE LET r == connect(conn_, up)
            IN /\ main_pc' = "camera_init"
               /\ db_mutex' = "free"
               /\ conn_' = r.conn
               /\ dbEnabled' = r.ok
               /\ logger_mutex' = AfterLogging({INFO, ERROR})
    /\ UNCHANGED <<vars, settings, cvars, lvars, ocr,
                   pulled, csv_failed, exit_code, inference,
                   initialized_, g_shutdown, handler,
                   csvFile, cap, frame_count, sampled, ecg,
                   console, csvRows, dbRows, cam, db_trace, db_loss,
                   last_empty, stop_cause, flushed>>

\* lines 265-271
CameraInit(opens) ==
    /\ main_pc = "camera_init"
    /\ CanRun
    /\ LET r == initializeCamera(opens)
       IN /\ cam' = r
          /\ IF r.opened
             THEN /\ cap' = "open"
                  /\ main_pc' = "csv_open"
                  /\ logger_mutex' = AfterLogging(CameraLevels(r))
                  /\ UNCHANGED <<exit_code, ocr>>
             ELSE /\ cap' = "closed"
                  /\ main_pc' = "exited"
                  /\ ocr' = "ended"
                  /\ logger_mutex' = "free"
                  /\ exit_code' = {ExitStatus(-1)}
    /\ UNCHANGED <<vars, settings, cvars, lvars,
                   pulled, csv_failed, inference, db_mutex,
                   initialized_, g_shutdown, handler,
                   dbEnabled, conn_, csvFile, frame_count, sampled, ecg,
                   console, csvRows, dbRows, db_trace, db_loss,
                   last_empty, stop_cause, flushed>>

\* the mutated open: the header is left to the first row written
CsvOpenNoHeader(enabled, ok) ==
    /\ main_pc = "csv_open"
    /\ CanRun
    /\ csvFile' = IF enabled /\ ok THEN "open" ELSE "closed"
    /\ csvRows' = << >>
    /\ csv_failed' = (enabled /\ ~ok)
    /\ main_pc' = "loop"
    /\ logger_mutex' = AfterLogging({INFO} \cup
                                    (IF enabled /\ ~ok THEN {ERROR} ELSE {}))
    /\ cam' = NoCamera
    /\ UNCHANGED <<vars, settings, cvars, lvars, ocr, pulled, exit_code,
                   inference,
                   db_mutex, initialized_, g_shutdown, handler, dbEnabled,
                   conn_, cap, frame_count, sampled, ecg, console, dbRows,
                   db_trace, db_loss, last_empty, stop_cause, flushed>>

\* lines 274-291: enabled is output.csv_enabled, ok tells whether the file
\* can be opened
CsvOpen(enabled, ok) ==
    /\ main_pc = "csv_open"
    /\ CanRun
    /\ csvFile' = IF enabled /\ ok THEN "open" ELSE "closed"
    /\ csvRows' = IF enabled /\ ok THEN <<Header>> ELSE << >>
    /\ csv_failed' = (enabled /\ ~ok)
    /\ main_pc' = "loop"
    /\ logger_mutex' = AfterLogging({INFO} \cup
                                    (IF enabled /\ ~ok THEN {ERROR} ELSE {}))
    /\ cam' = NoCamera
    /\ UNCHANGED <<vars, settings, cvars, lvars, ocr,
                   pulled, exit_code, inference, db_mutex,
                   initialized_, g_shutdown, handler,
                   dbEnabled, conn_, cap, frame_count, sampled, ecg,
                   console, dbRows, db_trace, db_loss,
                   last_empty, stop_cause, flushed>>

(* the loop *)

\* the mutated loop test: the flag is looked at on sampled turns only
LoopTestOnSamples ==
    /\ main_pc = "loop"
    /\ CanRun
    /\ IF g_shutdown /\ frame_count % ProcessingInterval = 0
       THEN main_pc' = "cleanup" /\ stop_cause' = "shutdown"
       ELSE main_pc' = "pull" /\ UNCHANGED stop_cause
    /\ cam' = NoCamera
    /\ UNCHANGED <<vars, settings, cvars, lvars, ocr,
                   pulled, csv_failed, exit_code, inference, db_mutex,
                   initialized_, logger_mutex, g_shutdown,
                   handler, dbEnabled, conn_, csvFile, cap, frame_count,
                   sampled, ecg, console, csvRows, dbRows, db_trace,
                   db_loss, last_empty, flushed>>

\* while (!g_shutdown), line 293
LoopTest ==
    /\ main_pc = "loop"
    /\ CanRun
    /\ IF g_shutdown
       THEN main_pc' = "cleanup" /\ stop_cause' = "shutdown"
       ELSE main_pc' = "pull" /\ UNCHANGED stop_cause
    /\ cam' = NoCamera
    /\ UNCHANGED <<vars, settings, cvars, lvars, ocr,
                   pulled, csv_failed, exit_code, inference, db_mutex,
                   initialized_, logger_mutex, g_shutdown,
                   handler, dbEnabled, conn_, csvFile, cap, frame_count,
                   sampled, ecg, console, csvRows, dbRows, db_trace,
                   db_loss, last_empty, flushed>>

\* cap >> frame and the test of line 297
PullFrame(empty) ==
    /\ main_pc = "pull"
    /\ CanRun
    /\ empty \/ frame_count < MaxFrames
    /\ last_empty' = empty
    /\ pulled' = IF empty THEN pulled ELSE pulled + 1
    /\ IF empty
       THEN main_pc' = "reopen" /\ logger_mutex' = AfterLogging({WARN})
       ELSE main_pc' = "sample" /\ UNCHANGED logger_mutex
    /\ UNCHANGED <<vars, settings, cvars, lvars, ocr,
                   csv_failed, exit_code, inference, db_mutex,
                   initialized_, g_shutdown, handler,
                   dbEnabled, conn_, csvFile, cap, frame_count, sampled, ecg,
                   console, csvRows, dbRows, cam, db_trace, db_loss,
                   stop_cause, flushed>>

\* the mutated reconnect: the frame counter starts again at 0
ReopenResetsCount(opens) ==
    /\ main_pc = "reopen"
    /\ CanRun
    /\ frame_count' = 0
    /\ LET r == initializeCamera(opens)
       IN /\ cam' = r
          /\ logger_mutex' = AfterLogging(CameraLevels(r))
          /\ IF r.opened
             THEN /\ cap' = "open"
                  /\ main_pc' = "loop"
                  /\ UNCHANGED stop_cause
             ELSE /\ cap' = "closed"
                  /\ main_pc' = "cleanup"
                  /\ stop_cause' = "camera"
    /\ UNCHANGED <<vars, settings, cvars, lvars, ocr, pulled, csv_failed,
                   exit_code,
                   inference,
                   db_mutex, initialized_, g_shutdown, handler, dbEnabled,
                   conn_, csvFile, sampled, ecg, console, csvRows, dbRows,
                   db_trace, db_loss, last_empty, flushed>>

\* the mutated reconnect: exhaustion in the loop ends the process as it does
\* at start-up
ReopenAborts(opens) ==
    /\ main_pc = "reopen"
    /\ CanRun
    /\ LET r == initializeCamera(opens)
       IN /\ cam' = r
          /\ IF r.opened
             THEN /\ cap' = "open"
                  /\ main_pc' = "loop"
                  /\ logger_mutex' = AfterLogging(CameraLevels(r))
                  /\ UNCHANGED <<stop_cause, exit_code>>
             ELSE /\ cap' = "closed"
                  /\ main_pc' = "exited"
                  /\ stop_cause' = "camera"
                  /\ logger_mutex' = "free"
                  /\ exit_code' = {ExitStatus(-1)}
    /\ UNCHANGED <<vars, settings, cvars, lvars, ocr,
                   pulled, csv_failed, inference, db_mutex,
                   initialized_, g_shutdown, handler,
                   dbEnabled, conn_, csvFile, frame_count, sampled, ecg,
                   console, csvRows, dbRows, db_trace, db_loss,
                   last_empty, flushed>>

\* lines 301-308: the handle is released and initializeCamera is called
Reopen(opens) ==
    /\ main_pc = "reopen"
    /\ CanRun
    /\ LET r == initializeCamera(opens)
       IN /\ cam' = r
          /\ logger_mutex' = AfterLogging(CameraLevels(r))
          /\ IF r.opened
             THEN /\ cap' = "open"
                  /\ main_pc' = "loop"
                  /\ UNCHANGED stop_cause
             ELSE /\ cap' = "closed"
                  /\ main_pc' = "cleanup"
                  /\ stop_cause' = "camera"
    /\ UNCHANGED <<vars, settings, cvars, lvars, ocr,
                   pulled, csv_failed, exit_code, inference, db_mutex,
                   initialized_, g_shutdown, handler,
                   dbEnabled, conn_, csvFile, frame_count, sampled, ecg,
                   console, csvRows, dbRows, db_trace, db_loss,
                   last_empty, flushed>>

\* lines 311-366 on a frame whose number is a multiple of the interval: the
\* frame shows the words f and run_classifier returns run
SampleFrame(f, run) ==
    /\ main_pc = "sample"
    /\ CanRun
    /\ frame_count % ProcessingInterval = 0
    /\ processFrame(f)
    /\ ecg' = Classification(mlEnabled, run)
    /\ inference' = IF mlEnabled THEN Inferred(run) ELSE NoInference
    /\ sampled' = TRUE
    /\ main_pc' = "output"
    /\ logger_mutex' = AfterLogging(ClassifierLevels(mlEnabled, run))
    /\ UNCHANGED <<settings, cvars, lvars, ocr,
                   pulled, csv_failed, exit_code, db_mutex,
                   initialized_, g_shutdown, handler,
                   dbEnabled, conn_, csvFile, cap, frame_count,
                   console, csvRows, dbRows, cam, db_trace, db_loss,
                   last_empty, stop_cause, flushed>>

\* line 311 on any other frame
SkipFrame ==
    /\ main_pc = "sample"
    /\ CanRun
    /\ frame_count % ProcessingInterval # 0
    /\ main_pc' = "quit_key"
    /\ UNCHANGED <<vars, settings, cvars, lvars, ocr,
                   pulled, csv_failed, exit_code, inference, db_mutex,
                   initialized_, logger_mutex, g_shutdown,
                   handler, dbEnabled, conn_, csvFile, cap, frame_count,
                   sampled, ecg, console, csvRows, dbRows, cam, db_trace,
                   db_loss, last_empty, stop_cause, flushed>>

\* the mutated output: nothing is written once the database is known lost
WriteSinksIfDatabaseUp ==
    /\ main_pc = "output"
    /\ CanRun
    /\ console' = IF consoleOutput /\ ~db_loss.found
                  THEN Append(console, frame_count) ELSE console
    /\ csvRows' = IF csvFile = "open" /\ ~db_loss.found
                  THEN Append(csvRows, Row(frame_count)) ELSE csvRows
    /\ main_pc' = "db"
    /\ UNCHANGED <<vars, settings, cvars, lvars, ocr,
                   pulled, csv_failed, exit_code, inference, db_mutex,
                   initialized_, logger_mutex, g_shutdown,
                   handler, dbEnabled, conn_, csvFile, cap, frame_count,
                   sampled, ecg, dbRows, cam, db_trace, db_loss, last_empty,
                   stop_cause, flushed>>

\* lines 369-386: the console line and the CSV row
WriteSinks ==
    /\ main_pc = "output"
    /\ CanRun
    /\ console' = IF consoleOutput THEN Append(console, frame_count)
                  ELSE console
    /\ csvRows' = IF csvFile = "open" THEN Append(csvRows, Row(frame_count))
                  ELSE csvRows
    /\ main_pc' = "db"
    /\ UNCHANGED <<vars, settings, cvars, lvars, ocr,
                   pulled, csv_failed, exit_code, inference, db_mutex,
                   initialized_, logger_mutex, g_shutdown,
                   handler, dbEnabled, conn_, csvFile, cap, frame_count,
                   sampled, ecg, dbRows, cam, db_trace, db_loss, last_empty,
                   stop_cause, flushed>>

\* the account of the records sampled since the connection was found lost
\* (by the test of line 389, or by a reconnect sequence with no success)
LossAfter(loss, enabled, r) ==
    [found |-> loss.found \/ r.skipped \/ (r.sequences > 0 /\ ~r.reconnected),
     later |-> IF loss.found /\ enabled THEN loss.later + 1 ELSE loss.later,
     reconnects |-> IF loss.found THEN loss.reconnects + r.sequences
                    ELSE loss.reconnects]

\* the mutated way on: a reconnect sequence without success ends the loop
AfterDatabaseFatal(r, debug) ==
    IF r.sequences > 0 /\ ~r.reconnected THEN "cleanup"
    ELSE IF debug THEN "debug_key" ELSE "quit_key"

\* where main goes after the database block whatever the calls r did: to
\* the test of line 406
AfterDatabase(r, debug) == IF debug THEN "debug_key" ELSE "quit_key"

\* lines 389-404 (what the server and the network do is env), then the test
\* of line 406; healthData, ecgClassification and ecgConfidence are read for
\* the last time at lines 392-397
SaveToDatabase(env) ==
    /\ main_pc = "db"
    /\ CanRun
    /\ NextIteration
    /\ ecg' = NoEcg
    /\ inference' = NoInference
    /\ LET c == IF conn_ = "ok" /\ ~env.alive THEN "bad" ELSE conn_
           r == SaveRecord(c, dbEnabled, env)
       IN /\ conn_' = r.conn
          /\ dbRows' = dbRows \o [k \in 1..r.stored |-> frame_count]
          /\ db_trace' = r
          /\ db_loss' = LossAfter(db_loss, dbEnabled, r)
          /\ logger_mutex' = AfterLogging(DbLevels(r))
          /\ main_pc' = AfterDatabase(r, debugMode)
    /\ UNCHANGED <<settings, cvars, lvars, ocr,
                   pulled, csv_failed, exit_code, db_mutex,
                   initialized_, g_shutdown, handler,
                   dbEnabled, csvFile, cap, frame_count, sampled,
                   console, csvRows, cam, last_empty, stop_cause, flushed>>

\* lines 406-409: a key pressed in the debug window
DebugWindow(key) ==
    /\ main_pc = "debug_key"
    /\ CanRun
    /\ IF key
       THEN main_pc' = "cleanup" /\ stop_cause' = "debug_key" /\ EndOfBody
       ELSE /\ main_pc' = "quit_key"
            /\ UNCHANGED <<sampled, db_trace, stop_cause>>
    /\ UNCHANGED <<vars, settings, cvars, lvars, ocr,
                   pulled, csv_failed, exit_code, inference, db_mutex,
                   initialized_, logger_mutex, g_shutdown,
                   handler, dbEnabled, conn_, csvFile, cap, frame_count, ecg,
                   console, csvRows, dbRows, cam, db_loss, last_empty,
                   flushed>>

\* lines 412-417: the key q, or the end of the loop body
QuitKey(q) ==
    /\ main_pc = "quit_key"
    /\ CanRun
    /\ EndOfBody
    /\ IF q
       THEN /\ main_pc' = "cleanup"
            /\ stop_cause' = "quit_key"
            /\ logger_mutex' = AfterLogging({INFO})
            /\ UNCHANGED frame_count
       ELSE /\ main_pc' = "loop"
            /\ frame_count' = frame_count + 1
            /\ UNCHANGED <<stop_cause, logger_mutex>>
    /\ UNCHANGED <<vars, settings, cvars, lvars, ocr,
                   pulled, csv_failed, exit_code, inference, db_mutex,
                   initialized_, g_shutdown, handler,
                   dbEnabled, conn_, csvFile, cap, ecg,
                   console, csvRows, dbRows, cam, db_loss, last_empty,
                   flushed>>

\* the mutated clean-up: the database stays connected and the logger is
\* not flushed
CleanupSinksOpen ==
    /\ main_pc = "cleanup"
    /\ CanRun
    /\ cap' = "closed"
    /\ csvFile' = "closed"
    /\ main_pc' = "stopped"
    /\ exit_code' = {ExitStatus(0)}
    /\ ocr' = "ended"
    /\ cam' = NoCamera
    /\ UNCHANGED <<vars, settings, cvars, lvars,
                   pulled, csv_failed, inference, db_mutex,
                   initialized_, logger_mutex, g_shutdown,
                   handler, dbEnabled, conn_, frame_count, sampled, ecg,
                   console, csvRows, dbRows, db_trace, db_loss,
                   last_empty, stop_cause, flushed>>

\* lines 420-433
Cleanup ==
    /\ main_pc = "cleanup"
    /\ CanRun
    /\ cap' = "closed"
    /\ csvFile' = "closed"
    /\ conn_' = disconnect(conn_)
    /\ flushed' = TRUE
    /\ main_pc' = "stopped"
    /\ exit_code' = {ExitStatus(0)}
    /\ ocr' = "ended"
    /\ cam' = NoCamera
    /\ UNCHANGED <<vars, settings, cvars, lvars,
                   pulled, csv_failed, inference, db_mutex,
                   initialized_, logger_mutex, g_shutdown,
                   handler, dbEnabled, frame_count, sampled, ecg,
                   console, csvRows, dbRows, db_trace, db_loss,
                   last_empty, stop_cause>>

(* the signal handler *)

\* SIGINT or SIGTERM delivered while main runs, lines 30-33: the handler
\* runs on main's thread; LOG_INFO locks the logger mutex when the logger is
\* initialized and the level lets INFO through; then the flag is set
signalHandler ==
    /\ main_pc \notin {"stopped", "exited"}
    /\ handler = "none"
    /\ IF Passes(INFO) /\ logger_mutex = "main" /\ relock_blocks
       THEN handler' = "blocked" /\ UNCHANGED g_shutdown
       ELSE handler' = "done" /\ g_shutdown' = TRUE
    /\ UNCHANGED <<vars, settings, cvars, lvars, ocr,
                   pulled, csv_failed, exit_code, inference, db_mutex,
                   main_pc, initialized_, logger_mutex,
                   dbEnabled, conn_, csvFile, cap, frame_count, sampled, ecg,
                   console, csvRows, dbRows, cam, db_trace, db_loss,
                   last_empty, stop_cause, flushed>>

\* the steps of main's own thread
MainThread ==
    \/ LoggerInitEnter
    \/ LoggerInitFlag
    \/ LoggerInitInfo
    \/ LogReturn
    \/ \E ok \in BOOLEAN : OcrInit(ok)
    \/ \E up \in BOOLEAN : DbInit(up)
    \/ \E opens \in CameraOpens : CameraInit(opens)
    \/ \E enabled \in BOOLEAN, ok \in BOOLEAN : CsvOpen(enabled, ok)
    \/ LoopTest
    \/ \E empty \in BOOLEAN : PullFrame(empty)
    \/ \E opens \in CameraOpens : Reopen(opens)
    \/ \E f \in MainFrames, run \in ClassifierRuns : SampleFrame(f, run)
    \/ SkipFrame
    \/ WriteSinks
    \/ \E env \in DbEnvs : SaveToDatabase(env)
    \/ \E key \in BOOLEAN : DebugWindow(key)
    \/ \E q \in BOOLEAN : QuitKey(q)
    \/ Cleanup

MainNext == MainThread \/ signalHandler

MainSpec == MainInit /\ [][MainNext]_allvars

\* main's thread runs whenever it can: nothing else is scheduled
FairMainSpec == MainSpec /\ WF_allvars(MainThread)

(* processFrame on any frame, main's other state left aside *)

FrameInit == Init /\ NotStarted /\ ConfigAside /\ LogsAside

Next ==
    \/ /\ pc = "idle"
       /\ \E f \in Frames : processFrame(f)
       /\ UNCHANGED <<mvars, cvars, lvars>>
    \/ NextIteration /\ UNCHANGED <<mvars, cvars, lvars>>

Spec == FrameInit /\ [][Next]_allvars

(* the configuration store at start-up, the rest left aside *)

ConfigStart ==
    Init /\ last_spo2_value = W_81 /\ NotStarted /\ ConfigInit /\ LogsAside

ConfigNext == loadConfig \/ ReadSettings \/ SamplingTest

ConfigSpec == ConfigStart /\ [][ConfigNext]_allvars

(* the log file under a run of log calls, the rest left aside *)

LogStart ==
    Init /\ last_spo2_value = W_81 /\ NotStarted /\ ConfigAside /\ LogInit

LogNext == \E reopens \in BOOLEAN : LogLine(reopens)

LogSpec == LogStart /\ [][LogNext]_allvars

----------------------------------------------------------------------------
(* Vocabulary of the properties *)

AllZero(values) ==
    /\ values[HR] = Zero
    /\ values[SpO2] = Zero
    /\ values[ABP] = Zero

\* the DetectedText processFrame builds from a word of the frame
AsDetected(tok) == [word |-> tok.text, x |-> tok.x, y |-> tok.y]

\* the words of the frame with a confidence above the threshold
Trusted(f) == {i \in 1..Len(f) : f[i].conf > ConfidenceThreshold}

\* the distance of candidate k of nums from the position p
DistanceTo(p, nums, k) == calculateDistance(p[1], p[2], nums[k].x, nums[k].y)

\* candidate k is nearest to p, and no earlier candidate is as near
FirstNearest(p, nums, k) ==
    /\ \A j \in 1..Len(nums) : DistanceTo(p, nums, k) <= DistanceTo(p, nums, j)
    /\ \A j \in 1..(k - 1) : DistanceTo(p, nums, k) < DistanceTo(p, nums, j)

----------------------------------------------------------------------------
(* C1: hard gate. On every frame whose associated ABP does not match
   ^\d{2,3}/\d{2,3}$ the returned record has HR = SpO2 = ABP = "0"; so in
   every returned record the ABP matches the pattern or all three are "0". *)
C1_HardGate ==
    pc = "returned" =>
        /\ ~bp_pattern(associated[ABP]) => AllZero(extractedValues)
        /\ bp_pattern(extractedValues[ABP]) \/ AllZero(extractedValues)

\* a frame whose candidates gave HR and ABP a malformed slash word
C1_Witness ==
    /\ pc = "returned"
    /\ associated[HR] = W_1_2
    /\ associated[ABP] = W_1_2
    /\ AllZero(extractedValues)

(* The branch of line 131 is not reached: a well-formed ABP needs a number
   candidate, so SpO2 is given the word of a candidate too, and a candidate
   contains "/". This is why no frame shows the substitution of the stored
   SpO2 taking place. *)
FallbackNeverTaken ==
    (pc = "returned" /\ bp_pattern(associated[ABP])) =>
        /\ associated[SpO2] \notin {Zero, Empty}
        /\ ContainsSlash(associated[SpO2])
        /\ last_spo2_value = associated[SpO2]

(* C3: Scenario C as claimed. On a frame with a well-formed ABP and no SpO2
   word, the returned SpO2 is the last_spo2_value the frame started with and
   last_spo2_value is unchanged. *)
C3_ScenarioC ==
    (/\ pc = "returned"
     /\ bp_pattern(associated[ABP])
     /\ \A i \in 1..Len(frame) : ~spo2_pattern(frame[i].text))
    => /\ extractedValues[SpO2] = prev_spo2
       /\ last_spo2_value = prev_spo2

(* C4: last_spo2_value changes only in processFrame, and only on a frame
   whose associated ABP is well-formed and whose associated SpO2 is neither
   "0" nor empty; every other step leaves it as it was. *)
C4_WrittenOnlyOnValidFrame ==
    [][last_spo2_value' # last_spo2_value =>
          /\ pc = "idle" /\ pc' = "returned"
          /\ bp_pattern(associated'[ABP])
          /\ associated'[SpO2] \notin {Zero, Empty}]_vars

\* a frame with a malformed ABP and an SpO2 association differing from the
\* stored value, which is kept
C4_Witness ==
    /\ pc = "returned"
    /\ ~bp_pattern(associated[ABP])
    /\ associated[SpO2] \notin {Zero, Empty, prev_spo2}
    /\ last_spo2_value = prev_spo2

(* C5: when the associated ABP matches the pattern, the returned HR and ABP
   are the associated ones, and the returned SpO2 is the associated one or
   the fallback value. *)
C5_ValidAbpKeepsRecord ==
    (pc = "returned" /\ bp_pattern(associated[ABP])) =>
        /\ extractedValues[HR] = associated[HR]
        /\ extractedValues[ABP] = associated[ABP]
        /\ extractedValues[SpO2] \in {associated[SpO2], prev_spo2}

\* a well-formed ABP beside an HR association that is another word
C5_Witness ==
    /\ pc = "returned"
    /\ bp_pattern(associated[ABP])
    /\ associated[HR] # associated[ABP]
    /\ extractedValues[HR] = associated[HR]

(* C6: for every label position and every non-empty candidate list that a
   frame gives, findClosestNumber returns the word of a candidate at minimal
   distance, the first such candidate in scan order; with the label at (0,0)
   and candidates at (10,0) and (3,4) it returns the one at (3,4). *)
C6_NearestFirst ==
    (pc = "returned" /\ detectedNumbers # << >>) =>
        /\ frame = NearestExample => associated[HR] = W_98_60
        /\ \A p \in LabelPositions :
               \E k \in 1..Len(detectedNumbers) :
                   /\ FirstNearest(p, detectedNumbers, k)
                   /\ findClosestNumber(
                          [word |-> Empty, x |-> p[1], y |-> p[2]],
                          detectedNumbers) = detectedNumbers[k].word

\* two candidates with different words are equally far from a label at
\* (0,0) and the first is returned
C6_Witness ==
    /\ pc = "returned"
    /\ Len(detectedNumbers) = 2
    /\ detectedNumbers[1].word # detectedNumbers[2].word
    /\ detectedNumbers[1].x # detectedNumbers[2].x
    /\ DistanceTo(<<0, 0>>, detectedNumbers, 1)
           = DistanceTo(<<0, 0>>, detectedNumbers, 2)
    /\ findClosestNumber([word |-> HR, x |-> 0, y |-> 0], detectedNumbers)
           = detectedNumbers[1].word

(* C7: Scenario A as claimed. The frame "HR" (0,0), "72" (2,1), "SpO2"
   (50,0), "97" (52,2), "ABP" (100,0), "120/80" (101,1) yields the record
   HR "72", SpO2 "97", ABP "120/80". *)
C7_ScenarioA ==
    (pc = "returned" /\ frame = ScenarioA) =>
        /\ extractedValues[HR] = W_72
        /\ extractedValues[SpO2] = W_97
        /\ extractedValues[ABP] = W_120_80

(* C8: a word whose confidence does not exceed the threshold (equality
   included) is never stored in a label slot nor appended to the number
   candidates: every stored DetectedText is a word of the frame with a
   confidence above the threshold, and there are no more candidates than
   such words. *)
C8_BelowThresholdDropped ==
    pc = "returned" =>
        /\ \A l \in LabelSet :
               \/ detectedLabels[l] = Sentinel
               \/ \E i \in Trusted(frame) :
                      AsDetected(frame[i]) = detectedLabels[l]
        /\ \A k \in 1..Len(detectedNumbers) :
               \E i \in Trusted(frame) : AsDetected(frame[i]) = detectedNumbers[k]
        /\ Len(detectedNumbers) <= Cardinality(Trusted(frame))

\* a frame with a label word and a slash word, both at the threshold: the
\* slot stays empty and there is no candidate
C8_Witness ==
    /\ pc = "returned"
    /\ \E i \in 1..Len(frame) :
           frame[i].text = ABP /\ frame[i].conf = ConfidenceThreshold
    /\ \E i \in 1..Len(frame) :
           frame[i].text = W_120_80 /\ frame[i].conf = ConfidenceThreshold
    /\ detectedLabels[ABP] = Sentinel
    /\ detectedNumbers = << >>

\* rule 1, else rule 2: the label a text stands for, Empty if none
C9_LabelOf(w) ==
    IF spo2_pattern(w) THEN SpO2 ELSE IF w \in LabelSet THEN w ELSE Empty

\* rule 3, for a word that neither rule 1 nor rule 2 takes
C9_IsNumber(tok) ==
    /\ tok.conf > ConfidenceThreshold
    /\ C9_LabelOf(tok.text) = Empty
    /\ bp_pattern(tok.text) \/ ContainsSlash(tok.text)

(* C9: every word above the threshold gets one role by the first matching
   rule: (1) an SpO2 spelling variant is the label SpO2, (2) a label name is
   that label, (3) a word matching the ABP pattern or containing "/" is a
   number candidate, (4) any other word is ignored. The candidates are
   exactly the rule-3 words in scan order, and the slot of a label holds a
   word of that label exactly when the frame has one. *)
C9_FirstMatchingRole ==
    pc = "returned" =>
        /\ LET sel == SelectSeq(frame, C9_IsNumber)
           IN detectedNumbers = [k \in 1..Len(sel) |-> AsDetected(sel[k])]
        /\ \A l \in LabelSet :
               LET S == {i \in Trusted(frame) : C9_LabelOf(frame[i].text) = l}
               IN IF S = {} THEN detectedLabels[l] = Sentinel
                  ELSE \E i \in S : detectedLabels[l] = AsDetected(frame[i])

\* an SpO2 variant containing "/" sits in the SpO2 slot and is no candidate,
\* beside a plain number that is ignored
C9_Witness ==
    /\ pc = "returned"
    /\ detectedLabels[SpO2].word = W_SpO2Slash
    /\ \E i \in Trusted(frame) : frame[i].text = W_72
    /\ detectedNumbers = << >>

(* C10: the associator runs for every label on every frame. Without number
   candidates every label's value is "0"; with candidates every label, one
   with an empty slot (at the sentinel (-1,-1)) included, gets the word of
   the candidate nearest to its slot's position. *)
C10_EveryLabelAssociated ==
    pc = "returned" =>
        /\ DOMAIN associated = LabelSet
        /\ detectedNumbers = << >> => \A l \in LabelSet : associated[l] = Zero
        /\ detectedNumbers # << >> =>
               \A l \in LabelSet :
                   \E k \in 1..Len(detectedNumbers) :
                       /\ associated[l] = detectedNumbers[k].word
                       /\ \A j \in 1..Len(detectedNumbers) :
                              DistanceTo(<<detectedLabels[l].x,
                                           detectedLabels[l].y>>,
                                         detectedNumbers, k)
                                <= DistanceTo(<<detectedLabels[l].x,
                                                detectedLabels[l].y>>,
                                              detectedNumbers, j)

\* HR has no slot and still gets the candidate nearest to (-1,-1), while ABP
\* has a slot and gets another candidate
C10_Witness ==
    /\ pc = "returned"
    /\ detectedLabels[HR] = Sentinel
    /\ detectedLabels[ABP] # Sentinel
    /\ Len(detectedNumbers) >= 2
    /\ associated[HR] # Zero
    /\ associated[ABP] # associated[HR]

\* the slots another label can hold: none, or a word at one of the positions
C11_OtherSlots ==
    {Sentinel} \cup {[word |-> HR, x |-> p[1], y |-> p[2]] : p \in Positions}

(* C11: the value of a label depends on that label's slot and on the ordered
   candidate list only. Replacing the slot of any other label (by no slot or
   by a slot elsewhere) and associating again gives the label the same
   value; the value is the one findClosestNumber computes from the label's
   own slot and the candidates; and a candidate is not used up, so a single
   candidate goes to all three labels. *)
C11_IndependentPerLabel ==
    [](pc = "returned" =>
        /\ \A other \in LabelSet : \A slot \in C11_OtherSlots :
               LET again == Associate([detectedLabels EXCEPT ![other] = slot],
                                      detectedNumbers)
               IN \A l \in LabelSet \ {other} : again[l] = associated[l]
        /\ \A l \in LabelSet :
               associated[l] = findClosestNumber(detectedLabels[l],
                                                 detectedNumbers)
        /\ Len(detectedNumbers) = 1 =>
               \A l \in LabelSet : associated[l] = detectedNumbers[1].word)

\* a frame with a found label and number candidates in which one candidate
\* is assigned to all three labels
C11_Witness ==
    /\ pc = "returned"
    /\ \E l \in LabelSet : detectedLabels[l] # Sentinel
    /\ detectedNumbers # << >>
    /\ associated[HR] # Zero
    /\ associated[HR] = associated[SpO2]
    /\ associated[SpO2] = associated[ABP]

----------------------------------------------------------------------------
(* Properties of main's loop *)

\* the database calls for the sampled record in hand have been made
AfterDatabaseBlock == sampled /\ main_pc \in {"debug_key", "quit_key"}

\* how many rows of the table carry the record of frame n
StoredCopies(n) == Cardinality({k \in 1..Len(dbRows) : dbRows[k] = n})

\* the console line, and the CSV row, of frame n is there where the sink is on
InConsoleAndCsv(n) ==
    /\ consoleOutput => \E k \in 1..Len(console) : console[k] = n
    /\ csvFile = "open" => \E k \in 1..Len(csvRows) : csvRows[k] = Row(n)

(* C12: for a sampled record, a failed insert is followed by exactly one
   reconnect sequence of at most retry_attempts connection attempts, and a
   sequence that succeeds by exactly one more insert. So a record causes at
   most two insert attempts and is stored at most once; it is stored once
   when the first insert fails and the reconnect and the retry succeed; and
   when the retry fails too it is not in the database, while its console
   line and CSV row are written. *)
C12_RetryOncePerRecord ==
    AfterDatabaseBlock =>
        /\ db_trace.inserts <= 2
        /\ db_trace.sequences <= 1
        /\ db_trace.connects <= DBRetryAttempts
        /\ StoredCopies(frame_count) <= 1
        /\ db_trace.first => db_trace.inserts = 1 /\ db_trace.sequences = 0
        /\ db_trace.inserts >= 1 /\ ~db_trace.first =>
               /\ db_trace.sequences = 1
               /\ db_trace.inserts = IF db_trace.reconnected THEN 2 ELSE 1
               /\ db_trace.connects >= 1
        /\ db_trace.inserts = 2 /\ db_trace.retry =>
               StoredCopies(frame_count) = 1
        /\ db_trace.inserts = 2 /\ ~db_trace.retry =>
               StoredCopies(frame_count) = 0 /\ InConsoleAndCsv(frame_count)
        /\ db_trace.inserts = 1 /\ ~db_trace.first =>
               StoredCopies(frame_count) = 0

\* the first insert failed, the second connection attempt succeeded, the
\* retry stored the record
C12_Witness ==
    /\ AfterDatabaseBlock
    /\ ~db_trace.first
    /\ db_trace.inserts = 2
    /\ db_trace.connects = 2
    /\ db_trace.retry
    /\ dbRows # << >>
    /\ dbRows[Len(dbRows)] = frame_count

(* C13: with the database sink on, once the connection has been found lost
   (by the test before the insert, or by a reconnect sequence without
   success), a reconnect is attempted for a record sampled later: a run that
   sampled records after the loss has attempted a reconnect after it. *)
C13_ReconnectAfterLoss ==
    main_pc = "stopped" /\ dbEnabled /\ db_loss.found /\ db_loss.later >= 1 =>
        db_loss.reconnects >= 1

\* the frames sampled so far whose record has passed the console and CSV
\* statements
EmittedFrames ==
    {n \in 0..frame_count :
        /\ n % ProcessingInterval = 0
        /\ \/ n < frame_count
           \/ sampled /\ main_pc \in {"db", "debug_key", "quit_key"}}

(* C14: while the loop runs, the console (if enabled) holds one line, and
   the CSV file (if open) one row after the header, for every frame sampled
   so far, whatever the database calls of that and of earlier records did;
   and with the console off and the CSV closed the insert is still made
   whenever the database is enabled and connected. *)
C14_FanOutIsolation ==
    /\ Running =>
        /\ consoleOutput =>
               /\ Len(console) = Cardinality(EmittedFrames)
               /\ {console[k] : k \in 1..Len(console)} = EmittedFrames
        /\ ~consoleOutput => console = << >>
        /\ csvFile = "open" =>
               /\ Len(csvRows) = Cardinality(EmittedFrames) + 1
               /\ csvRows[1] = Header
               /\ {csvRows[k] : k \in 2..Len(csvRows)}
                      = {Row(n) : n \in EmittedFrames}
        /\ csvFile = "closed" => csvRows = << >>
    /\ AfterDatabaseBlock /\ dbEnabled /\ ~db_trace.skipped =>
           db_trace.inserts >= 1

\* a second record gets its console line and CSV row after the database was
\* found lost for the first
C14_WitnessSinksAfterLoss ==
    /\ main_pc = "db"
    /\ sampled
    /\ db_loss.found
    /\ consoleOutput
    /\ csvFile = "open"
    /\ Len(console) = 2
    /\ Len(csvRows) = 3
    /\ dbRows = << >>

(* C15: every run of initializeCamera makes at most reconnect_attempts open
   attempts, ends at the first one that succeeds, and waits the delay between
   two attempts only (one wait fewer than attempts). After a run without
   success main does not go back to pulling or sampling frames: at start-up
   the process exits, in the loop the Scheduler goes to its clean-up and
   stops. After a run with success main goes on (to the loop) with the source
   open. *)
C15_BoundedCameraReconnect ==
    /\ cam.attempts > 0 =>
        /\ cam.attempts <= ReconnectAttempts
        /\ \A k \in 1..(cam.attempts - 1) : ~cam.opens[k]
        /\ cam.opened <=> cam.opens[cam.attempts]
        /\ ~cam.opened => cam.attempts = ReconnectAttempts
        /\ cam.sleeps = cam.attempts - 1
        /\ IF cam.opened
           THEN cap = "open" /\ main_pc \in {"csv_open", "loop"}
           ELSE cap = "closed" /\ main_pc \in {"exited", "cleanup"}
    /\ stop_cause = "camera" => main_pc \in {"cleanup", "stopped"}

\* in the loop, after an empty frame, the first attempt failed and the second
\* opened the source: one wait, and the loop goes on
C15_Witness ==
    /\ main_pc = "loop"
    /\ last_empty
    /\ cam.opened
    /\ cam.attempts = 2
    /\ cam.sleeps = 1
    /\ frame_count > 0

(* C16: if from some point on every frame pulled is empty, the Scheduler
   reaches STOPPED (or the process has ended otherwise). *)
C16_SustainedEmptyStops ==
    <>[](last_empty /\ handler # "blocked")
        => <>(main_pc \in {"stopped", "exited"})

\* the end of the loop was caused by what the cause says
CauseHolds ==
    /\ stop_cause' = "shutdown" => main_pc = "loop" /\ g_shutdown
    /\ stop_cause' = "camera" => main_pc = "reopen" /\ ~cam'.opened
    /\ stop_cause' = "quit_key" => main_pc = "quit_key"
    /\ stop_cause' = "debug_key" => main_pc = "debug_key" /\ debugMode

\* the record of the sampled frame in hand is well formed and has been
\* written to the console and the CSV where they are on
RecordEmitted ==
    sampled /\ main_pc = "db" =>
        /\ AllZero(extractedValues) \/ bp_pattern(extractedValues[ABP])
        /\ InConsoleAndCsv(frame_count)

(* C17 as stated: the Scheduler leaves RUNNING only on the shutdown flag,
   the quit key or the exhaustion of the camera reconnect attempts, and every
   sampled frame yields an emitted record. *)
C17_ThreeWaysOut ==
    /\ []RecordEmitted
    /\ [][Running /\ ~Running' =>
            /\ stop_cause' \in {"shutdown", "quit_key", "camera"}
            /\ CauseHolds]_allvars

(* C17 amended: the Scheduler leaves RUNNING only on the shutdown flag, the
   quit key, a key pressed in the debug window (debug mode), or the
   exhaustion of the camera reconnect attempts; the steps that process a
   sampled frame (extraction, classification, console, CSV, database) never
   leave RUNNING, and every sampled frame yields an emitted record. *)
C17_NoPerFrameFailureStops ==
    /\ []RecordEmitted
    /\ [][Running /\ ~Running' =>
            /\ main_pc' = "cleanup"
            /\ stop_cause' \in {"shutdown", "quit_key", "debug_key", "camera"}
            /\ CauseHolds]_allvars
    /\ [][(main_pc \in {"sample", "output", "db"}) => Running']_allvars

\* a second sampled frame with a malformed ABP among number candidates and a
\* classifier error, with the CSV closed and the database lost, has its
\* record on the console, and the loop runs
C17_Witness ==
    /\ main_pc = "db"
    /\ sampled
    /\ frame_count > 0
    /\ mlEnabled /\ ecg = NoEcg
    /\ detectedNumbers # << >>
    /\ AllZero(extractedValues)
    /\ csvFile = "closed"
    /\ db_loss.found
    /\ Len(console) = 2

(* C18: signalHandler completes whenever it is entered, and then the flag
   is true. *)
C18_HandlerCompletes ==
    /\ handler # "blocked"
    /\ handler = "done" => g_shutdown

(* C19: the flag is acted on at the loop test only. With the flag set the
   loop test goes to the clean-up and never to another pull; the iteration
   in progress is not cut short by it (it leaves the loop only by its own
   breaks); nothing goes back into the loop; and from any point of the loop
   at which the flag is set the Scheduler reaches STOPPED. *)
C19_CooperativeCancellation ==
    /\ [][main_pc = "loop" /\ g_shutdown /\ main_pc' # "loop" =>
            main_pc' = "cleanup" /\ stop_cause' = "shutdown"]_allvars
    /\ [][Running /\ main_pc # "loop" /\ ~Running' =>
            stop_cause' # "shutdown"]_allvars
    /\ [][g_shutdown /\ main_pc = "loop" =>
            /\ console' = console
            /\ csvRows' = csvRows
            /\ dbRows' = dbRows
            /\ frame_count' = frame_count]_allvars
    /\ [][(main_pc \in {"cleanup", "stopped"}) => ~Running']_allvars
    /\ (g_shutdown /\ Running) ~> (main_pc = "stopped")

\* the flag was set in the middle of a sampled iteration, which went on to
\* its database retry; the loop test has then ended the loop
C19_Witness ==
    /\ main_pc = "stopped"
    /\ stop_cause = "shutdown"
    /\ handler = "done"
    /\ dbRows # << >>
    /\ frame_count > 0

(* C20: the Scheduler leaves RUNNING to the clean-up only, and when the
   process has returned from it the video handle is released, the CSV file
   is closed, the database is disconnected and the logger is flushed,
   whichever of the four ways out was taken. *)
C20_CleanupOnEveryPath ==
    /\ stop_cause # "none" => main_pc \in {"cleanup", "stopped"}
    /\ main_pc \in {"cleanup", "stopped"} =>
           stop_cause \in {"shutdown", "quit_key", "debug_key", "camera"}
    /\ main_pc = "stopped" =>
        /\ cap = "closed"
        /\ csvFile = "closed"
        /\ conn_ = "null"
        /\ flushed

\* stopped by a key in the debug window, after rows went to the CSV file and
\* to the database
C20_Witness ==
    /\ main_pc = "stopped"
    /\ stop_cause = "debug_key"
    /\ Len(csvRows) >= 2
    /\ dbRows # << >>
    /\ flushed

----------------------------------------------------------------------------
(* Properties of the sampling cadence, the exit codes, the classifier and
   the CSV file *)

\* main is in the loop body with a non-empty frame in hand
InBody == main_pc \in {"sample", "output", "db", "debug_key", "quit_key"}

\* the non-empty frames delivered so far (numbered from 0) that the cadence
\* selects
Selected == {n \in 0..(pulled - 1) : n % ProcessingInterval = 0}

(* C21: the frame counter is the number of non-empty frames whose loop body
   has been completed, so the frame in hand has its index among the
   non-empty frames; it is sampled exactly when that index is a multiple of
   the interval (index 0 is); the sampled indices are 0, N, 2N, ... in this
   order, N-1 discarded frames between two of them; an empty frame is
   neither counted nor sampled, and the reconnect that follows it leaves
   the counter as it is. *)
C21_SamplingCadence ==
    /\ InBody => frame_count = pulled - 1
    /\ main_pc \in {"loop", "pull", "reopen"} => frame_count = pulled
    /\ main_pc \in {"cleanup", "stopped"} =>
           frame_count \in {pulled - 1, pulled}
    /\ sampled => InBody /\ (pulled - 1) % ProcessingInterval = 0
    /\ main_pc \in {"output", "db", "debug_key"} => sampled
    /\ main_pc = "quit_key" =>
           (sampled <=> (pulled - 1) % ProcessingInterval = 0)
    /\ main_pc = "reopen" => last_empty /\ ~sampled
    /\ consoleOutput =>
           /\ \A k \in 1..Len(console) :
                  console[k] = (k - 1) * ProcessingInterval
           /\ main_pc \in {"loop", "pull", "reopen"} =>
                  Len(console) = Cardinality(Selected)

\* the frames of index 0 and N have been sampled, the frames between them
\* discarded, and an empty frame with its reconnect has left the counter at
\* N + 1
C21_Witness ==
    /\ main_pc = "loop"
    /\ last_empty
    /\ cam.opened
    /\ pulled = ProcessingInterval + 1
    /\ frame_count = ProcessingInterval + 1
    /\ console = <<0, ProcessingInterval>>

\* the process has ended with an exit status other than 0
ExitedNonzero == exit_code # {} /\ 0 \notin exit_code

(* C22: when the CSV output is enabled and the file cannot be opened, the
   process exits with a nonzero status and the processing loop is never
   entered. *)
C22_CsvOpenFailureFatal ==
    csv_failed =>
        /\ ~Running
        /\ main_pc \notin {"cleanup", "stopped"}
        /\ main_pc = "exited" => ExitedNonzero

\* the loop has not been entered: no frame was pulled and nothing written
LoopNotEntered ==
    /\ pulled = 0
    /\ frame_count = 0
    /\ stop_cause = "none"
    /\ console = << >>
    /\ csvRows = << >>
    /\ dbRows = << >>

(* C23: the process has an exit status exactly when main has returned. A
   step out of the OCR initialisation goes on to the database with the OCR
   ready or, the initialisation having failed, ends the process; a step out
   of the camera initialisation goes on with the source open or, after
   reconnect_attempts attempts without success, ends the
   process. A process ended at start-up has a nonzero status and never
   entered the loop. A loop stopped by the shutdown flag or by the quit key
   ends with status 0. *)
C23_ExitCodes ==
    /\ [](main_pc \notin {"exited", "stopped"} <=> exit_code = {})
    /\ [](main_pc = "exited" =>
             /\ ExitedNonzero
             /\ ocr = "failed" \/ cam.attempts = ReconnectAttempts
             /\ cam.attempts > 0 => ~cam.opened)
    /\ [](main_pc = "stopped" /\ stop_cause \in {"shutdown", "quit_key"} =>
             exit_code = {0})
    /\ [](ocr = "failed" => main_pc = "exited")
    /\ [](ocr = "idle" \/ main_pc = "exited" => LoopNotEntered)
    /\ [][main_pc = "ocr_init" /\ main_pc' # "ocr_init" =>
            \/ ocr' = "ready" /\ main_pc' = "db_init" /\ exit_code' = {}
            \/ ocr' = "failed" /\ main_pc' = "exited" /\ ExitedNonzero']_allvars
    /\ [][main_pc = "camera_init" /\ main_pc' # "camera_init" =>
            \/ cam'.opened /\ main_pc' = "csv_open" /\ exit_code' = {}
            \/ ~cam'.opened /\ main_pc' = "exited" /\ ExitedNonzero']_allvars

\* the video source could not be opened at start-up: status 255
C23_Witness ==
    /\ main_pc = "exited"
    /\ exit_code = {255}
    /\ cam.attempts = ReconnectAttempts
    /\ ~cam.opened

\* the classifier block has run for the sampled frame in hand
Classified == sampled /\ main_pc \in {"output", "db"}

\* entry ix of the output vector has the highest confidence, and no earlier
\* entry has it
FirstMaximum(values, ix) ==
    /\ \A j \in 1..Len(values) : values[j] <= values[ix]
    /\ \A j \in 1..(ix - 1) : values[j] < values[ix]

(* C24: when classification is enabled and run_classifier returns 0, the
   label and confidence attached to the record are those of the entry of the
   output vector with the highest confidence, the first such entry when
   several share it. *)
C24_HighestConfidenceAttached ==
    Classified /\ inference.called /\ inference.res = 0 =>
        \E ix \in 1..Len(inference.values) :
            /\ FirstMaximum(inference.values, ix)
            /\ ecg = [label |-> ClassLabels[ix],
                      confidence |-> inference.values[ix]]

\* the sampled frame in hand has no classification: the classifier is
\* disabled, or run_classifier returned an error
Unclassified ==
    Classified /\ (~mlEnabled \/ (inference.called /\ inference.res # 0))

(* C25: a sampled frame whose classification is disabled or failed carries
   "unknown" with confidence 0, whatever earlier frames were classified as;
   its console line and CSV row are written where these sinks are on, and
   the database block is passed as for any record: with the database
   enabled the insert is attempted unless the connection is found lost, and
   main goes on to the rest of the loop body. *)
C25_UnknownStillDelivered ==
    /\ [](Unclassified => ecg = NoEcg)
    /\ [](Unclassified /\ main_pc = "db" => InConsoleAndCsv(frame_count))
    /\ [][Unclassified /\ main_pc = "output" =>
            /\ main_pc' \in {"output", "db"}
            /\ ecg' = ecg]_allvars
    /\ [][Unclassified /\ main_pc = "db" /\ main_pc' # "db" =>
            /\ main_pc' \in {"debug_key", "quit_key"}
            /\ dbEnabled => db_trace'.skipped \/ db_trace'.inserts >= 1
            /\ dbEnabled /\ db_trace'.first =>
                   dbRows' = Append(dbRows, frame_count)]_allvars

\* run_classifier fails on the second sampled frame; its record, with
\* "unknown", is on the console and in the CSV file, and the database is up
C25_Witness ==
    /\ main_pc = "db"
    /\ sampled
    /\ inference.called
    /\ inference.res # 0
    /\ ecg = NoEcg
    /\ frame_count > 0
    /\ Len(console) = 2
    /\ Len(csvRows) = 3
    /\ dbEnabled
    /\ conn_ = "ok"

\* the rows after the header are those of the frames 0, N, 2N, ...
RowsInSamplingOrder ==
    \A k \in 2..Len(csvRows) :
        csvRows[k] = Row((k - 2) * ProcessingInterval)

(* C27: a CSV file that was opened starts with the header, which occurs
   nowhere else; the rows after it are those of the sampled frames in
   sampling order; between two iterations their number is the number of
   frames sampled so far; and the file is written only by the open at
   start-up (the header alone) and by the output of a sampled frame (one row
   appended), never for a discarded or an empty frame. *)
C27_CsvHeaderThenRows ==
    /\ [](csvFile = "open" => csvRows # << >>)
    /\ [](csvRows # << >> =>
             /\ csvRows[1] = Header
             /\ \A k \in 2..Len(csvRows) : csvRows[k] # Header
             /\ RowsInSamplingOrder)
    /\ [](csvFile = "open" /\ main_pc \in {"loop", "pull", "reopen"} =>
             Len(csvRows) = 1 + Cardinality(Selected))
    /\ [][csvRows' # csvRows =>
            \/ main_pc = "csv_open" /\ csvRows' = <<Header>>
            \/ /\ main_pc = "output"
               /\ sampled
               /\ frame_count % ProcessingInterval = 0
               /\ csvFile = "open"
               /\ csvRows' = Append(csvRows, Row(frame_count))]_allvars

\* two frames sampled, the discarded frame between them and an empty frame
\* pulled: the file holds the header and the two rows
C27_Witness ==
    /\ main_pc = "reopen"
    /\ csvFile = "open"
    /\ pulled = ProcessingInterval + 1
    /\ csvRows = <<Header, Row(0), Row(ProcessingInterval)>>

\* the words of the frame in hand, above the threshold, that stand for l
ReadingsOf(l) == {i \in Trusted(frame) : C9_LabelOf(frame[i].text) = l}

\* the last of the words i of the frame in hand
LastOf(readings) == CHOOSE i \in readings : \A j \in readings : j <= i

(* C29: when processFrame has returned, the slot of every label holds the
   last word of this frame, above the threshold, that stands for the label,
   and the empty sentinel when the frame has no such word, whatever the
   frames before showed; the value of the label is the one associated to
   that slot. *)
C29_LastWinsPerFrame ==
    Classified =>
        \A l \in LabelSet :
            /\ detectedLabels[l] =
                   IF ReadingsOf(l) = {} THEN Sentinel
                   ELSE AsDetected(frame[LastOf(ReadingsOf(l))])
            /\ associated[l] =
                   findClosestNumber(detectedLabels[l], detectedNumbers)

\* after Scenario A, which showed all three labels (and left "120/80" as the
\* last SpO2), a frame with ABP read twice (and a third time below the
\* threshold) and no HR: the ABP slot holds the second reading and the HR
\* slot is empty
C29_Witness ==
    /\ Classified
    /\ frame_count > 0
    /\ prev_spo2 = W_120_80
    /\ frame = NoisyDisplay
    /\ detectedLabels[ABP] = [word |-> ABP, x |-> 100, y |-> 0]
    /\ detectedLabels[HR] = Sentinel
    /\ associated[ABP] = W_120_80

(* C30: every DatabaseManager operation main calls returns, so main is never
   left inside one holding DatabaseManager::mutex_; in particular
   DatabaseManager::init returns, and main goes on from the database
   initialisation. *)
C30_DatabaseOperationsReturn ==
    /\ db_mutex = "free"
    /\ main_pc = "hung" => logger_mutex = "main"

----------------------------------------------------------------------------
(* Properties of the configuration store and of the log files *)

\* what the file says for the member name of the object section
ValueIn(doc, section, name) ==
    LET pos == FindInSection(doc, section, name, 1)
    IN IF pos = 0 THEN Absent
       ELSE [kind |-> doc[pos].kind, text |-> doc[pos].text]

\* the file cannot be opened, or the key is absent or empty
Missing(section, name) ==
    \/ ~file_opens
    \/ ValueIn(content, section, name) = Absent
    \/ ValueIn(content, section, name).text = Empty

\* the same, or the key is a number that std::stoi does not parse
MissingNumber(section, name) ==
    \/ Missing(section, name)
    \/ ~stoi(ValueIn(content, section, name).text).ok

\* C26: when the configuration file cannot be opened, or a key is absent,
\* empty or (for the numbers) unparsable, the getter of that key returns its
\* documented default (processing interval 300, reconnect attempts 5, default
\* SpO2 "81", database disabled, classifier enabled), and start-up goes on:
\* main reads the getters whatever loadConfig returned.
C26_ConfigurationFallback ==
    /\ cfg_pc \in {"loaded", "not_loaded", "started"} => exit_code = {}
    /\ cfg_pc = "started" =>
           /\ MissingNumber("video", "processing_interval")
                  => startup.interval = 300
           /\ MissingNumber("video", "reconnect_attempts")
                  => startup.attempts = 5
           /\ Missing("vital_signs", "default_spo2") => startup.spo2 = W_81
           /\ Missing("database", "enabled") => startup.database = FALSE
           /\ Missing("ml_model", "enabled") => startup.ml = TRUE

\* C28: after any sequence of rotations, for any configured count, the
\* backups are no more than the configured count, backup .1 holds the content
\* rotated last and a backup of higher index holds strictly older content;
\* a rotation leaves an empty active file when the reopening succeeds.
C28_BoundedNumberedBackups ==
    /\ Cardinality(Backups(files)) <= maxFiles_
    /\ \A i, j \in Backups(files) :
           i < j => files[i].born > files[j].born
    /\ rotations > 0 =>
           /\ 1 \in Backups(files)
           /\ files[1].born = rotations - 1
    /\ fileEnabled_ => files[0] # NoFile /\ files[0].born = rotations

----------------------------------------------------------------------------
(* Properties that the code implies without the specification saying so *)

\* main is inside Logger::init, before or at its own message
InLoggerInit == main_pc \in {"logger_init", "logger_info"}

\* C31: Logger::init returns for every configured level: its message
\* "Logger initialized", logged while init holds Logger::mutex_, never takes
\* that mutex again, so main is never left inside init holding the mutex.
C31_LoggerInitReturns ==
    /\ InLoggerInit => logger_mutex = "main"
    /\ main_pc = "hung" => db_mutex = "main"

TestEvaluated == cfg_pc \in {"fault", "sampled", "skipped"}

\* C33: the sampling test frame_count % processingInterval is only ever
\* evaluated with an interval that is not 0, whatever the configuration
\* supplies for video.processing_interval, 0 and negative numbers included.
C33_IntervalNeverZero ==
    /\ TestEvaluated => startup.interval # 0
    /\ cfg_pc # "fault"

\* C34: a value is resolved by the first occurrence of the bare name in the
\* file, whatever the section; so after loadConfig ml_model.enabled and
\* database.enabled hold the same stored value, and so do
\* ocr.confidence_threshold and ml_model.confidence_threshold.
C34_SharedNamesSharedValues ==
    /\ loaded_ =>
           /\ config_["ml_model.enabled"] = config_["database.enabled"]
           /\ config_["ocr.confidence_threshold"]
                  = config_["ml_model.confidence_threshold"]
           /\ \A key \in ConfigKeys :
                  LET pos == FindName(content, LeafOf(key), 1)
                  IN /\ pos = 0 => config_[key] = Empty
                     /\ (pos # 0 /\ config_[key] # Empty)
                            => config_[key] = content[pos].text
    /\ ~loaded_ => config_ = EmptyMap

\* a file loaded whose sections disagree on both names: enabled is true for
\* the classifier and false for the database, the thresholds are 0 and 7
C34_Witness ==
    /\ loaded_
    /\ ValueIn(content, "ml_model", "enabled") = Literal(T_true)
    /\ ValueIn(content, "database", "enabled") = Literal(T_false)
    /\ ValueIn(content, "ocr", "confidence_threshold") = Literal(T_7)
    /\ ValueIn(content, "ml_model", "confidence_threshold") = Literal(T_0)
    /\ config_["database.enabled"] = T_true
    /\ config_["ml_model.confidence_threshold"] = T_0
    /\ cfg_pc = "started"

\* C35: when the reconnect attempts are exhausted after the loop has started
\* the process does not abort: main leaves the loop, runs the clean-up of a
\* graceful stop and returns 0; the same exhaustion at start-up returns a
\* code that is not 0.
C35_CameraLossEndsCleanly ==
    /\ [][(main_pc = "reopen" /\ main_pc' # "reopen" /\ ~cam'.opened) =>
            /\ cam'.attempts = ReconnectAttempts
            /\ main_pc' = "cleanup"
            /\ stop_cause' = "camera"
            /\ exit_code' = {}]_allvars
    /\ [](stop_cause = "camera" =>
             /\ main_pc \in {"cleanup", "stopped"}
             /\ last_empty)
    /\ [][(main_pc = "cleanup" /\ main_pc' # "cleanup") =>
            /\ main_pc' = "stopped"
            /\ cap' = "closed" /\ csvFile' = "closed" /\ conn_' = "null"
            /\ flushed'
            /\ exit_code' = {0}
            /\ UNCHANGED stop_cause]_allvars
    /\ [](main_pc = "stopped" /\ stop_cause = "camera" => exit_code = {0})
    /\ [][(main_pc = "camera_init" /\ main_pc' # "camera_init"
               /\ ~cam'.opened) =>
            /\ cam'.attempts = ReconnectAttempts
            /\ main_pc' = "exited"
            /\ exit_code' # {} /\ 0 \notin exit_code'
            /\ UNCHANGED stop_cause]_allvars

\* the camera was lost for good after frames were sampled and written: main
\* has cleaned up and returned 0
C35_Witness ==
    /\ main_pc = "stopped"
    /\ stop_cause = "camera"
    /\ exit_code = {0}
    /\ frame_count > 0
    /\ Len(csvRows) >= 2
    /\ flushed
    /\ cap = "closed"

====
